---- MODULE Spec2Model ----
(***************************************************************************)
(* Model of the document pipeline of 2026-DSThesis: the PDF ingestion job  *)
(* (pipeline/pdf_parse.py) and the LLM enrichment job                      *)
(* (pipeline/llm_enrich.py) working on one PostgreSQL database, with the   *)
(* retry loop of ollama_chat and the CSV lane (pipeline/load_csvs.py,      *)
(* pipeline/staging_transforms.py) as specifications of their own.         *)
(*                                                                         *)
(* The variables runs, documents, work_experience_raw, llm_calls and       *)
(* phd_status hold the COMMITTED content of the tables of the same name.   *)
(* Every job works in transactions that become visible at conn.commit(),   *)
(* so the statements between two commits are one action.                   *)
(***************************************************************************)
EXTENDS Integers, Sequences, FiniteSets, TLC

\* ---------------------------------------------------------------- bounds
MaxRuns == 5             \* runs started over an input directory of one file
MaxRunsTwoFiles == 2     \* runs started over an input directory of two files
MaxRunsConc == 3         \* runs started when two instances may overlap
MaxPromptVersions == 3   \* distinct contents of prompts/phd_status_v1.txt
MaxDbFaults == 2         \* database statements that fail in one behaviour
MaxOllamaRetries == 3    \* largest configured value of OLLAMA_MAX_RETRIES
MaxCsvRuns == 3          \* runs of the CSV lane
MaxRunsGuard == 6        \* runs started over the one-file directory, for the guard
MaxTextLen == 7          \* tokens of a response text given to the extractor
MaxRunsCrash == 2        \* runs started when the process may be killed

\* ------------------------------------------------------ program constants
MODEL == "llama3.1:8b-instruct-q4_0"
PROMPT_VERSION == "phd_status_v1"
MAX_DOC_ATTEMPTS == 3

NULL == "NULL"

\* The job instances (operating-system processes) that may run a pipeline.
Instances == {1, 2}

\* The PDF files that may be present under the input directory.  A file is
\* identified by its content hash (sha256_file), and so is its document.
PdfFiles == {1, 2, 3}

\* The contents the input directory may have; it is the same in every run
\* of one behaviour.
InputDirs == {{1}, {1, 2}, {3}}

\* What parse_linkedin_experiences extracts from each file (file 3 has no
\* Experience section).
PdfRoles == (1 :> <<"role_a">>) @@ (2 :> <<"role_b">>) @@ (3 :> <<>>)

\* The CSV files that may be present under data/input, identified by their
\* content hash (sha256_file).
CsvFiles == {1, 2}

\* What a stage function finds in a file: the empty marker, no row left
\* after the transform, rows to copy, or content it cannot read (a missing
\* column, a COPY the table rejects).
CsvKinds == {"empty_marker", "no_rows", "rows", "unreadable"}

VARIABLES
    runs,                 \* etl.runs: sequence of rows, run_id = index
    documents,            \* etl.documents: document_id -> row
    work_experience_raw,  \* staging.work_experience_raw: document_id -> roles
    llm_calls,            \* etl.llm_calls: set of rows
    phd_status,           \* core.phd_status: set of rows
    input_dir,            \* the PDF files present under the input directory
    service_calls,        \* document_id -> number of ollama_chat invocations
    db_faults,            \* database statements that failed so far
    pc,                   \* instance -> position in main()
    run_id,               \* instance -> run_id of the run it created
    prompt_template,      \* instance -> template read at start of main()
    doc_ids,              \* instance -> documents selected by llm_enrich
    pdf_files,            \* instance -> files found by pdf_parse
    pos,                  \* instance -> index of the current list item
    input_hash,           \* instance -> fingerprint of the current prompt
    call_result,          \* instance -> what ollama_chat handed back
    exit_code,            \* instance -> value returned by its last main()
    config_ok,            \* the POSTGRES_* settings and the prompt file exist
    OLLAMA_MAX_RETRIES,   \* the configured number of requests per call
    ollama_server,        \* what the service answers to successive requests
    chat_return,          \* what the last ollama_chat handed back
    file_manifest,        \* etl.file_manifest: file hash -> row
    staging,              \* staging tables: file hash -> run_id of each load
    csv_dir,              \* the CSV files present under the input directory
    csv_kind,             \* file hash -> what the file's content is
    raw_text,             \* a response text: sequence of tokens
    json_candidate,       \* what extract_json_candidate returned for it
    extracted,            \* the JSON value the candidate text stands for
    validation,           \* outcome of the parse + validate block for it
    pydantic_major        \* major version of the installed pydantic

dbvars == <<runs, documents, work_experience_raw, llm_calls, phd_status>>
envvars == <<input_dir, service_calls, db_faults>>
procvars == <<pc, run_id, prompt_template, doc_ids, pdf_files, pos, input_hash,
              call_result, exit_code>>
chatvars == <<OLLAMA_MAX_RETRIES, ollama_server, chat_return>>
csvvars == <<file_manifest, staging, csv_dir, csv_kind>>
textvars == <<raw_text, json_candidate, extracted, validation, pydantic_major>>
\* What the document jobs (pdf_parse, llm_enrich) never touch.
lanevars == <<config_ok, chatvars, csvvars, textvars>>
\* What the CSV lane and ollama_chat never touch.
docvars == <<documents, work_experience_raw, llm_calls, phd_status,
             input_dir, service_calls, db_faults, prompt_template, doc_ids,
             pdf_files, pos, input_hash, call_result>>
vars == <<runs, documents, work_experience_raw, llm_calls, phd_status,
          input_dir, service_calls, db_faults, pc, run_id, prompt_template,
          doc_ids, pdf_files, pos, input_hash, call_result, exit_code,
          config_ok, OLLAMA_MAX_RETRIES, ollama_server, chat_return,
          file_manifest, staging, csv_dir, csv_kind,
          raw_text, json_candidate, extracted, validation, pydantic_major>>

\* ------------------------------------------------------------- run ledger
\* The Run inserted as already closed.
create_run_closed(rs) ==
    Append(rs, [status |-> "SUCCESS", error_message |-> NULL])

\* INSERT INTO etl.runs ... 'RUNNING' (the columns no code reads are left out)
create_run(rs) ==
    Append(rs, [status |-> "RUNNING", error_message |-> NULL])

finish_run(rs, rid, status, error) ==
    [rs EXCEPT ![rid] = [@ EXCEPT !.status = status, !.error_message = error]]

\* ---------------------------------------------------------------- hasher
\* sha256 is modelled as a collision-free digest of its argument.
sha256_text(s) == <<"sha256", s>>

render_roles(roles) == <<"roles", roles>>

RenderPrompt(template, roles) == <<template, render_roles(roles)>>

\* ------------------------------------------------------ response validator
\* A service response text, described by what json.loads and the PhDStatus
\* schema see in it: whether extract_json_candidate's result is JSON at all
\* ("invalid"), JSON that is not an object ("scalar") or an object, and for
\* an object the value of is_current_phd and whether evidence is a string.
Response(json, phd, evidence) ==
    [json |-> json, is_current_phd |-> phd, evidence |-> evidence]

NoResponse == Response(NULL, NULL, NULL)

ServiceResponses ==
    { Response("invalid", "absent", "absent"),
      Response("scalar", "absent", "absent"),
      Response("object", "null", "string"),
      Response("object", "true", "string"),
      Response("object", "false", "string") }

\* Lines 314-334: the parse + validate block.  raised is the exception the
\* block lets escape (only TypeError, from PhDStatus(**x) on a non-mapping).
ValidateResponse(text) ==
    IF text.json = "invalid" THEN
        [raised |-> NULL, validated |-> FALSE, response_json |-> NoResponse,
         validation_errors |-> "JSONDecodeError"]
    ELSE IF text.json = "scalar" THEN
        [raised |-> "TypeError", validated |-> FALSE, response_json |-> text,
         validation_errors |-> NULL]
    ELSE IF text.evidence # "string" THEN
        [raised |-> NULL, validated |-> FALSE, response_json |-> text,
         validation_errors |-> "ValidationError"]
    ELSE IF text.is_current_phd \notin {"true", "false"} THEN
        [raised |-> NULL, validated |-> FALSE, response_json |-> text,
         validation_errors |-> "is_current_phd must be true/false (not null)"]
    ELSE
        [raised |-> NULL, validated |-> TRUE, response_json |-> text,
         validation_errors |-> NULL]

\* ------------------------------------------------ attempt ledger, selector
\* Every attempt counted, validated or not.
CountsEveryAttempt(c) == c.status \in {"FAILED", "SUCCESS"}

CountsAsAttempt(c) ==
    c.status = "FAILED" \/ (c.status = "SUCCESS" /\ c.validated = FALSE)

count_attempts(calls, document_id) ==
    Cardinality({ c \in calls : /\ c.document_id = document_id
                                /\ c.model = MODEL
                                /\ c.prompt_version = PROMPT_VERSION
                                /\ CountsAsAttempt(c) })

\* The attempt bound left out.
EligibleAnyFailed(docs, calls, d) ==
    docs[d].status \in {"PARSED", "NEEDS_REVIEW", "FAILED"}

\* The attempt bound off by one.
EligibleOffByOne(docs, calls, d) ==
    \/ docs[d].status \in {"PARSED", "NEEDS_REVIEW"}
    \/ /\ docs[d].status = "FAILED"
       /\ Cardinality({ c \in calls : c.document_id = d /\ CountsAsAttempt(c) })
              <= MAX_DOC_ATTEMPTS

\* The selector without its test of ENRICHED.
EligibleAlsoEnriched(docs, calls, d) ==
    \/ docs[d].status \in {"PARSED", "NEEDS_REVIEW", "ENRICHED"}
    \/ /\ docs[d].status = "FAILED"
       /\ Cardinality({ c \in calls : c.document_id = d /\ CountsAsAttempt(c) })
              < MAX_DOC_ATTEMPTS

Eligible(docs, calls, d) ==
    \/ docs[d].status \in {"PARSED", "NEEDS_REVIEW"}
    \/ /\ docs[d].status = "FAILED"
       /\ count_attempts(calls, d) < MAX_DOC_ATTEMPTS

\* ORDER BY ingested_at ASC.
RECURSIVE OrderByIngestedAsc(_, _)
OrderByIngestedAsc(docs, S) ==
    IF S = {} THEN <<>>
    ELSE LET d == CHOOSE x \in S :
                    \A y \in S : docs[x].ingested_at <= docs[y].ingested_at
         IN  <<d>> \o OrderByIngestedAsc(docs, S \ {d})

RECURSIVE OrderByIngestedDesc(_, _)
OrderByIngestedDesc(docs, S) ==
    IF S = {} THEN <<>>
    ELSE LET d == CHOOSE x \in S :
                    \A y \in S : docs[x].ingested_at >= docs[y].ingested_at
         IN  <<d>> \o OrderByIngestedDesc(docs, S \ {d})

select_documents(docs, calls) ==
    OrderByIngestedDesc(docs, { d \in DOMAIN docs : Eligible(docs, calls, d) })

SameKey(c, document_id, hash) ==
    /\ c.document_id = document_id
    /\ c.model = MODEL
    /\ c.prompt_version = PROMPT_VERSION
    /\ c.input_hash_sha256 = hash

\* The insert without its ON CONFLICT clause taking effect.
insert_llm_call(calls, f) ==
    calls \cup
    { [llm_call_id |-> Cardinality(calls) + 1,
       document_id |-> f.document_id,
       model |-> MODEL, prompt_version |-> PROMPT_VERSION,
       input_hash_sha256 |-> f.input_hash_sha256,
       status |-> f.status, response_text |-> f.response_text,
       response_json |-> f.response_json,
       validated |-> f.validated,
       validation_errors |-> f.validation_errors,
       error_message |-> f.error_message] }

\* The upsert leaving a validated row as it is.
upsert_keep_validated(calls, f) ==
    LET hit == { c \in calls : SameKey(c, f.document_id, f.input_hash_sha256) }
    IN  IF hit = {}
        THEN insert_llm_call(calls, f)
        ELSE (calls \ hit) \cup
             { IF c.validated
               THEN c
               ELSE [c EXCEPT !.status = f.status,
                              !.response_text = f.response_text,
                              !.response_json = f.response_json,
                              !.validated = f.validated,
                              !.validation_errors = f.validation_errors,
                              !.error_message = f.error_message] : c \in hit }

\* The upsert keeping the history of failures: a failed attempt always gets
\* a row of its own.
upsert_llm_call_append_failures(calls, f) ==
    IF f.status = "FAILED"
    THEN insert_llm_call(calls, f)
    ELSE upsert_keep_validated(calls, f)

\* INSERT ... ON CONFLICT (document_id, model, prompt_version,
\* input_hash_sha256) DO UPDATE SET ...: f holds the inserted column values.
\* A new row takes the next value of the llm_call_id sequence.
upsert_llm_call(calls, f) ==
    LET hit == { c \in calls : SameKey(c, f.document_id, f.input_hash_sha256) }
    IN  IF hit = {}
        THEN calls \cup
             { [llm_call_id |-> Cardinality(calls) + 1,
                document_id |-> f.document_id,
                model |-> MODEL, prompt_version |-> PROMPT_VERSION,
                input_hash_sha256 |-> f.input_hash_sha256,
                status |-> f.status, response_text |-> f.response_text,
                response_json |-> f.response_json,
                validated |-> f.validated,
                validation_errors |-> f.validation_errors,
                error_message |-> f.error_message] }
        ELSE (calls \ hit) \cup
             { [c EXCEPT !.status = f.status,
                         !.response_text = f.response_text,
                         !.response_json = f.response_json,
                         !.validated = f.validated,
                         !.validation_errors = f.validation_errors,
                         !.error_message = f.error_message] : c \in hit }

\* The id of a row that is not there.
ReturnedCallIdUnknown(calls, document_id, hash) == Cardinality(calls) + 1

\* RETURNING llm_call_id
ReturnedCallId(calls, document_id, hash) ==
    (CHOOSE c \in calls : SameKey(c, document_id, hash)).llm_call_id

\* The lookup testing the wrong value of validated.
AlreadyValidatedWrongFlag(calls, document_id, hash) ==
    \E c \in calls : /\ SameKey(c, document_id, hash)
                     /\ c.status = "SUCCESS"
                     /\ c.validated = FALSE

\* The lookup left out.
AlreadyValidatedNever(calls, document_id, hash) == FALSE

\* The idempotency lookup of lines 286-303.
AlreadyValidated(calls, document_id, hash) ==
    \E c \in calls : /\ SameKey(c, document_id, hash)
                     /\ c.status = "SUCCESS"
                     /\ c.validated = TRUE

\* The attempt guard left out.
AttemptsExhaustedNever(calls, document_id) == FALSE

\* Lines 257-260: the per-document guard.
AttemptsExhausted(calls, document_id) ==
    count_attempts(calls, document_id) >= MAX_DOC_ATTEMPTS

\* The guard left out.
NoRoleRowsNever(rows) == FALSE

\* Line 274: if not rows.
NoRoleRows(rows) == rows = <<>>

\* The fingerprint instance i computes for document d (lines 278-284).
PromptHash(i, d) ==
    sha256_text(RenderPrompt(prompt_template[i], work_experience_raw[d]))

CurrentDoc(i) == doc_ids[i][pos[i]]

InLoop(i) == pos[i] <= Len(doc_ids[i])

NoHash == sha256_text(NULL)

\* What ollama_chat hands back: a response text, or the exception it raises
\* after its retries.
ServiceOutcomes ==
    [raised : {NULL}, text : ServiceResponses]
        \cup { [raised |-> "ServiceError", text |-> NoResponse] }

NoResult == [raised |-> NULL, text |-> NoResponse]

TypeOK ==
    /\ pc \in [Instances -> {"idle", "select", "loop", "call", "store",
                             "pdf_loop", "pdf_pages", "pdf_experience",
                             "csv_stages"}]
    /\ DOMAIN documents \subseteq PdfFiles
    /\ \A d \in DOMAIN documents :
          documents[d].status \in
              {"NEW", "PARSED", "ENRICHED", "NEEDS_REVIEW", "FAILED"}
    /\ input_dir \in InputDirs
    /\ \A r \in 1..Len(runs) : runs[r].status \in {"RUNNING", "SUCCESS", "FAILED"}
    /\ \A c \in llm_calls : c.status \in {"SUCCESS", "FAILED"}
    /\ \A i \in Instances : prompt_template[i] \in 0..MaxPromptVersions
    /\ config_ok \in BOOLEAN
    /\ OLLAMA_MAX_RETRIES \in 0..MaxOllamaRetries
    /\ DOMAIN file_manifest \subseteq CsvFiles
    /\ \A f \in DOMAIN file_manifest :
          file_manifest[f].status \in {"NEW", "LOADED", "SKIPPED", "FAILED"}
    /\ csv_dir \subseteq CsvFiles
    /\ csv_kind \in [CsvFiles -> CsvKinds]
    /\ Len(raw_text) <= MaxTextLen
    /\ pydantic_major \in {1, 2}

NoChat == [raised |-> NULL, text |-> NoResponse, requests |-> 0]

\* ollama_chat is not under way (OLLAMA_MAX_RETRIES has its default).
ChatIdle ==
    /\ OLLAMA_MAX_RETRIES = 2
    /\ ollama_server = <<>>
    /\ chat_return = NoChat

\* The CSV lane was never run.
CsvIdle ==
    /\ file_manifest = <<>>
    /\ staging = [f \in CsvFiles |-> <<>>]
    /\ csv_dir = {}
    /\ csv_kind = [f \in CsvFiles |-> "rows"]

\* The extractor has not returned yet.
NoCandidate == <<NULL>>

\* No JSON value was extracted yet.
NoJson ==
    [json |-> NULL, is_current_phd |-> NULL, current_employer |-> NULL,
     current_title |-> NULL, since_month |-> NULL, evidence |-> NULL]

\* No response text is being looked at; validation holds the outcome of
\* the parse + validate block once it has run.
TextIdle ==
    /\ raw_text = <<>>
    /\ json_candidate = NoCandidate
    /\ extracted = NoJson
    /\ validation = <<>>
    /\ pydantic_major = 2

\* The database is empty and no job is under way.
DocsInit ==
    /\ runs = <<>>
    /\ documents = <<>>
    /\ work_experience_raw = [f \in PdfFiles |-> <<>>]
    /\ llm_calls = {}
    /\ phd_status = {}
    /\ service_calls = [f \in PdfFiles |-> 0]
    /\ db_faults = 0
    /\ pc = [i \in Instances |-> "idle"]
    /\ run_id = [i \in Instances |-> 0]
    /\ prompt_template = [i \in Instances |-> 0]
    /\ doc_ids = [i \in Instances |-> <<>>]
    /\ pdf_files = [i \in Instances |-> <<>>]
    /\ pos = [i \in Instances |-> 1]
    /\ input_hash = [i \in Instances |-> NoHash]
    /\ call_result = [i \in Instances |-> NoResult]
    /\ exit_code = [i \in Instances |-> 0]

Init ==
    /\ DocsInit
    /\ input_dir \in InputDirs
    /\ config_ok \in BOOLEAN
    /\ ChatIdle
    /\ CsvIdle
    /\ TextIdle

\* main() returns: the instance is idle again.
Return(i, code) ==
    /\ pc' = [pc EXCEPT ![i] = "idle"]
    /\ exit_code' = [exit_code EXCEPT ![i] = code]
    /\ doc_ids' = [doc_ids EXCEPT ![i] = <<>>]
    /\ pdf_files' = [pdf_files EXCEPT ![i] = <<>>]
    /\ pos' = [pos EXCEPT ![i] = 1]
    /\ input_hash' = [input_hash EXCEPT ![i] = NoHash]
    /\ call_result' = [call_result EXCEPT ![i] = NoResult]
    /\ prompt_template' = [prompt_template EXCEPT ![i] = 0]
    /\ run_id' = [run_id EXCEPT ![i] = 0]

\* --------------------------------------------------------- llm_enrich.main
\* Lines 229-243: build_postgres_db_url raises ValueError on a missing
\* setting, get_prompt_template raises on a missing file; the process ends
\* with exit status 1 before any connection is opened.
EnrichConfigError(i) ==
    /\ pc[i] = "idle"
    /\ ~config_ok
    /\ exit_code' = [exit_code EXCEPT ![i] = 1]
    /\ UNCHANGED <<dbvars, envvars, pc, run_id, prompt_template, doc_ids,
                   pdf_files, pos, input_hash, call_result, lanevars>>

\* Lines 242-249: read the prompt template (t is the content the file has
\* at that moment), create the Run, commit.
EnrichStart(i, budget) ==
    /\ pc[i] = "idle"
    /\ config_ok
    /\ Len(runs) < budget
    /\ runs' = create_run(runs)
    /\ run_id' = [run_id EXCEPT ![i] = Len(runs) + 1]
    /\ \E t \in 1..MaxPromptVersions :
          prompt_template' = [prompt_template EXCEPT ![i] = t]
    /\ pc' = [pc EXCEPT ![i] = "select"]
    /\ UNCHANGED <<documents, work_experience_raw, llm_calls, phd_status,
                   envvars, doc_ids, pdf_files, pos, input_hash, call_result,
                   exit_code>>
    /\ UNCHANGED lanevars

\* Line 252.
EnrichSelect(i) ==
    /\ pc[i] = "select"
    /\ doc_ids' = [doc_ids EXCEPT ![i] = select_documents(documents, llm_calls)]
    /\ pos' = [pos EXCEPT ![i] = 1]
    /\ pc' = [pc EXCEPT ![i] = "loop"]
    /\ UNCHANGED <<dbvars, envvars, run_id, prompt_template, pdf_files,
                   input_hash, call_result, exit_code>>
    /\ UNCHANGED lanevars

\* Lines 255-308: the reads that open one document's cycle.  The document is
\* skipped by the attempt guard, the empty-roles guard or the idempotency
\* lookup; otherwise ollama_chat is invoked.
EnrichCheck(i) ==
    /\ pc[i] = "loop"
    /\ InLoop(i)
    /\ LET d == CurrentDoc(i)
           h == PromptHash(i, d)
           skip == \/ AttemptsExhausted(llm_calls, d)
                   \/ NoRoleRows(work_experience_raw[d])
                   \/ AlreadyValidated(llm_calls, d, h)
       IN  IF skip
           THEN /\ pos' = [pos EXCEPT ![i] = @ + 1]
                /\ UNCHANGED <<pc, input_hash, service_calls>>
           ELSE /\ pc' = [pc EXCEPT ![i] = "call"]
                /\ input_hash' = [input_hash EXCEPT ![i] = h]
                /\ service_calls' = [service_calls EXCEPT ![d] = @ + 1]
                /\ UNCHANGED pos
    /\ UNCHANGED <<dbvars, input_dir, db_faults, run_id, prompt_template,
                   doc_ids, pdf_files, call_result, exit_code>>
    /\ UNCHANGED lanevars

\* Line 308: ollama_chat returns or raises.
EnrichService(i) ==
    /\ pc[i] = "call"
    /\ \E o \in ServiceOutcomes :
          call_result' = [call_result EXCEPT ![i] = o]
    /\ pc' = [pc EXCEPT ![i] = "store"]
    /\ UNCHANGED <<dbvars, envvars, run_id, prompt_template, doc_ids,
                   pdf_files, pos, input_hash, exit_code>>
    /\ UNCHANGED lanevars

\* The loop goes on with the next document.
NextDocument(i) ==
    /\ pc' = [pc EXCEPT ![i] = "loop"]
    /\ pos' = [pos EXCEPT ![i] = @ + 1]
    /\ input_hash' = [input_hash EXCEPT ![i] = NoHash]
    /\ call_result' = [call_result EXCEPT ![i] = NoResult]
    /\ UNCHANGED <<run_id, prompt_template, doc_ids, pdf_files, exit_code>>

\* The handler letting the exception end main().
AbortAfterFailure(i) == Return(i, 1)

\* Line 454: the handler ends with continue.
ContinueAfterFailure(i) == NextDocument(i)

\* The insert keeping the row the document already has.
insert_phd_status(rows, row) == rows \cup {row}

\* INSERT INTO core.phd_status ... ON CONFLICT (document_id) DO UPDATE SET ...
upsert_phd_status(rows, row) ==
    { r \in rows : r.document_id # row.document_id } \cup {row}

\* The success step without the update of etl.documents.
CommitEnrichedPartial(i, d, text, v) ==
    LET calls == upsert_keep_validated(llm_calls,
                    [document_id |-> d,
                     input_hash_sha256 |-> input_hash[i],
                     status |-> "SUCCESS", response_text |-> text,
                     response_json |-> v.response_json, validated |-> TRUE,
                     validation_errors |-> NULL, error_message |-> NULL])
    IN  /\ llm_calls' = calls
        /\ phd_status' = { r \in phd_status : r.document_id # d } \cup
               { [document_id |-> d,
                  is_current_phd |-> v.response_json.is_current_phd,
                  evidence |-> v.response_json.evidence,
                  source_llm_call_id |->
                      (CHOOSE c \in calls :
                          SameKey(c, d, input_hash[i])).llm_call_id] }
        /\ UNCHANGED documents

\* The success step leaving the document's error message as it was.
CommitEnrichedKeepsError(i, d, text, v) ==
    LET calls == upsert_llm_call(llm_calls,
                    [document_id |-> d,
                     input_hash_sha256 |-> input_hash[i],
                     status |-> "SUCCESS", response_text |-> text,
                     response_json |-> v.response_json, validated |-> TRUE,
                     validation_errors |-> NULL, error_message |-> NULL])
        llm_call_id == ReturnedCallId(calls, d, input_hash[i])
        row == [document_id |-> d,
                is_current_phd |-> v.response_json.is_current_phd,
                evidence |-> v.response_json.evidence,
                source_llm_call_id |-> llm_call_id]
    IN  /\ llm_calls' = calls
        /\ phd_status' = upsert_phd_status(phd_status, row)
        /\ documents' = [documents EXCEPT ![d].status = "ENRICHED"]

\* Lines 338-406 when validation succeeded: one transaction.
CommitEnriched(i, d, text, v) ==
    LET calls == upsert_llm_call(llm_calls,
                    [document_id |-> d,
                     input_hash_sha256 |-> input_hash[i],
                     status |-> "SUCCESS", response_text |-> text,
                     response_json |-> v.response_json, validated |-> TRUE,
                     validation_errors |-> NULL, error_message |-> NULL])
        llm_call_id == ReturnedCallId(calls, d, input_hash[i])
        row == [document_id |-> d,
                is_current_phd |-> v.response_json.is_current_phd,
                evidence |-> v.response_json.evidence,
                source_llm_call_id |-> llm_call_id]
    IN  /\ llm_calls' = calls
        /\ phd_status' = upsert_phd_status(phd_status, row)
        /\ documents' = [documents EXCEPT ![d].status = "ENRICHED",
                                          ![d].error_message = NULL]

\* An invalid response stored with the status of the service call.
CommitInvalidAsSuccess(i, d, text, v) ==
    /\ llm_calls' = upsert_llm_call(llm_calls,
                    [document_id |-> d,
                     input_hash_sha256 |-> input_hash[i],
                     status |-> "SUCCESS", response_text |-> text,
                     response_json |-> v.response_json, validated |-> FALSE,
                     validation_errors |-> v.validation_errors,
                     error_message |-> "Validation failed"])
    /\ documents' = [documents EXCEPT ![d].status = "FAILED",
                                      ![d].error_message = "LLM output invalid"]
    /\ UNCHANGED phd_status

\* Lines 338-406 when validation failed: one transaction.
CommitInvalid(i, d, text, v) ==
    /\ llm_calls' = upsert_llm_call(llm_calls,
                    [document_id |-> d,
                     input_hash_sha256 |-> input_hash[i],
                     status |-> "FAILED", response_text |-> text,
                     response_json |-> v.response_json, validated |-> FALSE,
                     validation_errors |-> v.validation_errors,
                     error_message |-> "Validation failed"])
    /\ documents' = [documents EXCEPT ![d].status = "FAILED",
                                      ![d].error_message = "LLM output invalid"]
    /\ UNCHANGED phd_status

\* The record the handler of line 408 writes for the exception e.
FailedCall(i, d, e) ==
    [document_id |-> d,
     input_hash_sha256 |-> input_hash[i],
     status |-> "FAILED", response_text |-> NoResponse,
     response_json |-> NoResponse, validated |-> FALSE,
     validation_errors |-> NULL, error_message |-> e]

\* The handler marking the document without recording the attempt.
HandleExceptionNoLog(i, d, e, logged, marked) ==
    /\ documents' = IF marked
                    THEN [documents EXCEPT ![d].status = "FAILED",
                                           ![d].error_message = e]
                    ELSE documents
    /\ UNCHANGED <<llm_calls, phd_status>>

\* The handler's update of etl.documents without its WHERE clause.
HandleExceptionAllDocuments(i, d, e, logged, marked) ==
    /\ llm_calls' = IF logged /\ marked
                    THEN upsert_keep_validated(llm_calls, FailedCall(i, d, e))
                    ELSE llm_calls
    /\ documents' = IF marked
                    THEN [x \in DOMAIN documents |->
                            [documents[x] EXCEPT !.status = "FAILED",
                                                 !.error_message = e]]
                    ELSE documents
    /\ UNCHANGED phd_status

\* The handler keeping the logged attempt when the document update fails.
HandleExceptionNoRollback(i, d, e, logged, marked) ==
    /\ llm_calls' = IF logged
                    THEN upsert_keep_validated(llm_calls, FailedCall(i, d, e))
                    ELSE llm_calls
    /\ documents' = IF marked
                    THEN [documents EXCEPT ![d].status = "FAILED",
                                           ![d].error_message = e]
                    ELSE documents
    /\ UNCHANGED phd_status

\* Lines 408-454: the handler of the per-document try block.  logged tells
\* whether the FAILED upsert went through, marked whether the document
\* update and its commit did; a failure of either is rolled back.
HandleException(i, d, e, logged, marked) ==
    /\ llm_calls' = IF logged /\ marked
                    THEN upsert_llm_call(llm_calls, FailedCall(i, d, e))
                    ELSE llm_calls
    /\ documents' = IF marked
                    THEN [documents EXCEPT ![d].status = "FAILED",
                                           ![d].error_message = e]
                    ELSE documents
    /\ UNCHANGED phd_status

Cost(failed) == IF failed THEN 1 ELSE 0

\* Lines 309-454: from the return of ollama_chat to the commit that ends
\* the document's cycle.  db_error is a statement of the try block failing
\* in the database after the response was validated.
EnrichStore(i) ==
    /\ pc[i] = "store"
    /\ LET d == CurrentDoc(i)
           o == call_result[i]
       IN  \E db_error, logged, marked \in BOOLEAN :
              LET v == ValidateResponse(o.text)
                  e == IF o.raised # NULL THEN o.raised
                       ELSE IF v.raised # NULL THEN v.raised
                       ELSE IF db_error THEN "DatabaseError"
                       ELSE NULL
                  faults == Cost(db_error) + Cost(~logged) + Cost(~marked)
              IN  /\ db_error => (o.raised = NULL /\ v.raised = NULL)
                  /\ db_faults + faults <= MaxDbFaults
                  /\ db_faults' = db_faults + faults
                  /\ IF e # NULL
                     THEN /\ HandleException(i, d, e, logged, marked)
                          /\ ContinueAfterFailure(i)
                     ELSE /\ logged /\ marked
                          /\ IF v.validated
                             THEN CommitEnriched(i, d, o.text, v)
                             ELSE CommitInvalid(i, d, o.text, v)
                          /\ NextDocument(i)
    /\ UNCHANGED <<runs, work_experience_raw, input_dir, service_calls>>
    /\ UNCHANGED lanevars

\* Lines 456-460: the loop is over.
EnrichFinish(i) ==
    /\ pc[i] = "loop"
    /\ ~InLoop(i)
    /\ runs' = finish_run(runs, run_id[i], "SUCCESS", NULL)
    /\ Return(i, 0)
    /\ UNCHANGED <<documents, work_experience_raw, llm_calls, phd_status,
                   envvars>>
    /\ UNCHANGED lanevars

\* Lines 462-471: an error outside the per-document try block (a failing
\* query of the selector, the guard, the role load, the idempotency lookup
\* or the final finish_run).  closed tells whether the handler's own
\* finish_run and commit went through.
EnrichFatal(i) ==
    /\ pc[i] \in {"select", "loop"}
    /\ \E closed \in BOOLEAN :
          /\ db_faults + 1 + Cost(~closed) <= MaxDbFaults
          /\ db_faults' = db_faults + 1 + Cost(~closed)
          /\ runs' = IF closed
                     THEN finish_run(runs, run_id[i], "FAILED", "DatabaseError")
                     ELSE runs
    /\ Return(i, 1)
    /\ UNCHANGED <<documents, work_experience_raw, llm_calls, phd_status,
                   input_dir, service_calls>>
    /\ UNCHANGED lanevars

\* Statements committed one by one: the kill comes after the upsert of the
\* AttemptRecord of a valid response.
KilledTransactionPartial(i) ==
    IF /\ pc[i] = "store"
       /\ call_result[i].raised = NULL
       /\ ValidateResponse(call_result[i].text).validated
    THEN /\ llm_calls' = upsert_keep_validated(llm_calls,
                    [document_id |-> CurrentDoc(i),
                     input_hash_sha256 |-> input_hash[i],
                     status |-> "SUCCESS",
                     response_text |-> call_result[i].text,
                     response_json |-> call_result[i].text,
                     validated |-> TRUE,
                     validation_errors |-> NULL, error_message |-> NULL])
         /\ UNCHANGED <<documents, phd_status>>
    ELSE UNCHANGED <<documents, llm_calls, phd_status>>

\* The connection of line 245 is not in autocommit mode and the document
\* cycle commits once, at its end (line 406, or line 445 in the handler):
\* the statements of a cycle that was cut short were never committed and the
\* server discards them with the session.
KilledTransaction(i) == UNCHANGED <<documents, llm_calls, phd_status>>

\* The process of instance i is killed after it committed its Run (line
\* 248) and before main returns; 137 is the status of a killed process.
EnrichKill(i) ==
    /\ pc[i] \in {"select", "loop", "call", "store"}
    /\ KilledTransaction(i)
    /\ Return(i, 137)
    /\ UNCHANGED <<runs, work_experience_raw, input_dir, service_calls,
                   db_faults>>
    /\ UNCHANGED lanevars

\* ----------------------------------------------------------- pdf_parse.main
RECURSIVE Sorted(_)
Sorted(S) ==
    IF S = {} THEN <<>>
    ELSE LET f == CHOOSE x \in S : \A y \in S : x <= y
         IN  <<f>> \o Sorted(S \ {f})

CurrentFile(i) == pdf_files[i][pos[i]]

InPdfLoop(i) == pos[i] <= Len(pdf_files[i])

\* INSERT ... ON CONFLICT (file_hash_sha256) DO NOTHING: the document of a
\* file is the row with the file's hash, stamped at its first registration.
register_document(docs, f) ==
    IF f \in DOMAIN docs THEN docs
    ELSE docs @@ (f :> [status |-> "NEW", error_message |-> NULL,
                        ingested_at |-> Cardinality(DOMAIN docs) + 1])

update_document_status(docs, d, status, error_message) ==
    [docs EXCEPT ![d].status = status, ![d].error_message = error_message]

\* ON CONFLICT (document_id, role_index) DO UPDATE: rows are replaced index
\* by index, rows beyond the new list stay.
upsert_work_experiences(old, roles) ==
    [k \in 1..(IF Len(old) > Len(roles) THEN Len(old) ELSE Len(roles)) |->
        IF k <= Len(roles) THEN roles[k] ELSE old[k]]

\* Lines 287-296: build_postgres_db_url raises ValueError on a missing
\* setting and the process ends with exit status 1.
PdfConfigError(i) ==
    /\ pc[i] = "idle"
    /\ ~config_ok
    /\ exit_code' = [exit_code EXCEPT ![i] = 1]
    /\ UNCHANGED <<dbvars, envvars, pc, run_id, prompt_template, doc_ids,
                   pdf_files, pos, input_hash, call_result, lanevars>>

\* Lines 301-316: the files found (a non-empty list), the Run, the commit.
PdfStart(i, budget) ==
    /\ pc[i] = "idle"
    /\ config_ok
    /\ Len(runs) < budget
    /\ pdf_files' = [pdf_files EXCEPT ![i] = Sorted(input_dir)]
    /\ runs' = create_run(runs)
    /\ run_id' = [run_id EXCEPT ![i] = Len(runs) + 1]
    /\ pos' = [pos EXCEPT ![i] = 1]
    /\ pc' = [pc EXCEPT ![i] = "pdf_loop"]
    /\ UNCHANGED <<documents, work_experience_raw, llm_calls, phd_status,
                   envvars, prompt_template, doc_ids, input_hash, call_result, exit_code>>
    /\ UNCHANGED lanevars

\* Lines 321-333: register the file (commit), reset its status (commit).
PdfRegister(i) ==
    /\ pc[i] = "pdf_loop"
    /\ InPdfLoop(i)
    /\ LET f == CurrentFile(i)
       IN  documents' = update_document_status(
                            register_document(documents, f), f, "NEW", NULL)
    /\ pc' = [pc EXCEPT ![i] = "pdf_pages"]
    /\ UNCHANGED <<runs, work_experience_raw, llm_calls, phd_status, envvars,
                   run_id, prompt_template, doc_ids, pdf_files, pos,
                   input_hash, call_result, exit_code>>
    /\ UNCHANGED lanevars

\* Lines 335-345: the page extraction step.
PdfPages(i) ==
    /\ pc[i] = "pdf_pages"
    /\ \E ok \in BOOLEAN :
          IF ok
          THEN /\ pc' = [pc EXCEPT ![i] = "pdf_experience"]
               /\ UNCHANGED <<documents, pos>>
          ELSE /\ documents' = update_document_status(
                                  documents, CurrentFile(i), "FAILED",
                                  "ExtractError")
               /\ pos' = [pos EXCEPT ![i] = @ + 1]
               /\ pc' = [pc EXCEPT ![i] = "pdf_loop"]
    /\ UNCHANGED <<runs, work_experience_raw, llm_calls, phd_status, envvars,
                   run_id, prompt_template, doc_ids, pdf_files, input_hash, call_result,
                   exit_code>>
    /\ UNCHANGED lanevars

\* Lines 347-365: the experience parsing step.
PdfExperience(i) ==
    /\ pc[i] = "pdf_experience"
    /\ LET f == CurrentFile(i)
           roles == PdfRoles[f]
       IN  \E ok \in BOOLEAN :
              IF ok
              THEN /\ work_experience_raw' =
                         [work_experience_raw EXCEPT
                             ![f] = upsert_work_experiences(@, roles)]
                   /\ documents' =
                         IF Len(roles) = 0
                         THEN update_document_status(documents, f,
                                 "NEEDS_REVIEW", "No roles parsed")
                         ELSE update_document_status(documents, f,
                                 "PARSED", NULL)
              ELSE /\ documents' = update_document_status(documents, f,
                                      "FAILED", "ParseError")
                   /\ UNCHANGED work_experience_raw
    /\ pos' = [pos EXCEPT ![i] = @ + 1]
    /\ pc' = [pc EXCEPT ![i] = "pdf_loop"]
    /\ UNCHANGED <<runs, llm_calls, phd_status, envvars, run_id,
                   prompt_template, doc_ids, pdf_files, input_hash, call_result, exit_code>>
    /\ UNCHANGED lanevars

\* Lines 367-370.
PdfFinish(i) ==
    /\ pc[i] = "pdf_loop"
    /\ ~InPdfLoop(i)
    /\ runs' = finish_run(runs, run_id[i], "SUCCESS", NULL)
    /\ Return(i, 0)
    /\ UNCHANGED <<documents, work_experience_raw, llm_calls, phd_status,
                   envvars>>
    /\ UNCHANGED lanevars

\* ------------------------------------------------------------- ollama_chat
\* What one POST to /api/chat ends in: the content of a well-formed 2xx
\* body, or the exception of requests.post (transport), raise_for_status
\* (non-2xx) or the body access (malformed body).
RequestErrors == {"ConnectionError", "HTTPError", "KeyError"}

RequestOutcomes ==
    [error : {NULL}, content : ServiceResponses]
        \cup [error : RequestErrors, content : {NoResponse}]

\* One request more than configured.
AttemptRangeOneMore(max) == 1..(max + 1)

\* Line 98: range(1, OLLAMA_MAX_RETRIES + 1).
AttemptRange(max) == 1..max

\* Lines 97-115: the loop from request number attempt on; server[k] is the
\* outcome of the k-th request.
RECURSIVE ChatLoop(_, _, _, _)
ChatLoop(server, attempt, max, last_error) ==
    IF attempt \notin AttemptRange(max)
    THEN [raised |-> IF last_error # NULL THEN last_error ELSE "RuntimeError",
          text |-> NoResponse, requests |-> attempt - 1]
    ELSE IF server[attempt].error = NULL
    THEN [raised |-> NULL, text |-> server[attempt].content,
          requests |-> attempt]
    ELSE ChatLoop(server, attempt + 1, max, server[attempt].error)

ollama_chat(server, max) == ChatLoop(server, 1, max, NULL)

\* One call of ollama_chat.
ChatCall ==
    /\ chat_return = NoChat
    /\ chat_return' = ollama_chat(ollama_server, OLLAMA_MAX_RETRIES)
    /\ UNCHANGED <<dbvars, envvars, procvars, config_ok, OLLAMA_MAX_RETRIES,
                   ollama_server, csvvars, textvars>>

\* ---------------------------------------------------------------- CSV lane
\* INSERT INTO etl.file_manifest ... ON CONFLICT (file_hash_sha256) DO NOTHING
upsert_manifest(manifest, f, status) ==
    IF f \in DOMAIN manifest THEN manifest
    ELSE manifest @@ (f :> [status |-> status, error_message |-> NULL])

\* UPDATE etl.file_manifest ... WHERE file_hash_sha256 = f
mark_manifest(manifest, f, status, error_message) ==
    IF f \in DOMAIN manifest
    THEN [manifest EXCEPT ![f] = [status |-> status,
                                  error_message |-> error_message]]
    ELSE manifest

\* The test looking for SKIPPED only.
AlreadyLoadedSkippedOnly(manifest, f) ==
    f \in DOMAIN manifest /\ manifest[f].status = "SKIPPED"

\* existing_status and existing_status[0] in ("LOADED", "SKIPPED")
AlreadyLoaded(manifest, f) ==
    f \in DOMAIN manifest /\ manifest[f].status \in {"LOADED", "SKIPPED"}

\* The body of a stage function's loop for file f, in the transaction tx
\* (the tables as the connection sees them, and the exception raised so
\* far); committed is the state a rollback goes back to.
StageFile(tx, f, rid, copy_fails, committed) ==
    LET manifest == upsert_manifest(tx.manifest, f, "NEW")
    IN  IF AlreadyLoaded(manifest, f)
        THEN [tx EXCEPT !.manifest = manifest]
        ELSE IF csv_kind[f] = "empty_marker"
        THEN [tx EXCEPT !.manifest = mark_manifest(manifest, f, "SKIPPED",
                                         "Empty marker detected")]
        ELSE IF csv_kind[f] = "no_rows"
        THEN [tx EXCEPT !.manifest = mark_manifest(manifest, f, "SKIPPED",
                                         "No rows after transform")]
        ELSE IF csv_kind[f] = "rows" /\ f \notin copy_fails
        THEN [tx EXCEPT !.manifest = mark_manifest(manifest, f, "LOADED", NULL),
                        !.staging = [@ EXCEPT ![f] = Append(@, rid)]]
        ELSE [manifest |-> mark_manifest(committed.manifest, f, "FAILED",
                                         "LoadError"),
              staging |-> committed.staging,
              raised |-> "LoadError"]

\* The stage functions called one after another; the first exception ends
\* them all.
RECURSIVE StageFiles(_, _, _, _, _)
StageFiles(files, tx, rid, copy_fails, committed) ==
    IF files = <<>> \/ tx.raised # NULL THEN tx
    ELSE StageFiles(Tail(files),
                    StageFile(tx, Head(files), rid, copy_fails, committed),
                    rid, copy_fails, committed)

\* load_csvs.main lines 14-30: the Run is created and committed; dir is what
\* the input directory holds during this run.
CsvStart(i) ==
    /\ pc[i] = "idle"
    /\ config_ok
    /\ Len(runs) < MaxCsvRuns
    /\ runs' = create_run(runs)
    /\ run_id' = [run_id EXCEPT ![i] = Len(runs) + 1]
    /\ \E dir \in SUBSET CsvFiles : csv_dir' = dir
    /\ pc' = [pc EXCEPT ![i] = "csv_stages"]
    /\ UNCHANGED <<docvars, exit_code, config_ok, chatvars, file_manifest,
                   staging, csv_kind, textvars>>

\* The stage functions with every file committed on its own.
RECURSIVE StageFilesAutocommit(_, _, _, _)
StageFilesAutocommit(files, tx, rid, copy_fails) ==
    IF files = <<>> \/ tx.raised # NULL THEN tx
    ELSE StageFilesAutocommit(Tail(files),
                              StageFile(tx, Head(files), rid, copy_fails, tx),
                              rid, copy_fails)

\* load_csvs over a connection in autocommit mode.
CsvStagesAutocommit(i) ==
    /\ pc[i] = "csv_stages"
    /\ \E copy_fails \in SUBSET csv_dir :
          LET committed == [manifest |-> file_manifest, staging |-> staging,
                            raised |-> NULL]
              tx == StageFilesAutocommit(Sorted(csv_dir), committed, run_id[i],
                                         copy_fails)
          IN  /\ file_manifest' = tx.manifest
              /\ staging' = tx.staging
              /\ IF tx.raised = NULL
                 THEN /\ runs' = finish_run(runs, run_id[i], "SUCCESS", NULL)
                      /\ Return(i, 0)
                 ELSE /\ UNCHANGED runs
                      /\ Return(i, 1)
    /\ UNCHANGED <<documents, work_experience_raw, llm_calls, phd_status,
                   envvars, config_ok, chatvars, csv_dir, csv_kind, textvars>>

\* load_csvs.main lines 32-46 and the exit of "with psycopg.connect(dsn)":
\* one transaction, committed when the block ends normally and rolled back
\* when an exception leaves it (the process then ends with status 1).
CsvStages(i) ==
    /\ pc[i] = "csv_stages"
    /\ \E copy_fails \in SUBSET csv_dir :
          LET committed == [manifest |-> file_manifest, staging |-> staging,
                            raised |-> NULL]
              tx == StageFiles(Sorted(csv_dir), committed, run_id[i],
                               copy_fails, committed)
          IN  IF tx.raised = NULL
              THEN /\ file_manifest' = tx.manifest
                   /\ staging' = tx.staging
                   /\ runs' = finish_run(runs, run_id[i], "SUCCESS", NULL)
                   /\ Return(i, 0)
              ELSE /\ UNCHANGED <<file_manifest, staging, runs>>
                   /\ Return(i, 1)
    /\ UNCHANGED <<documents, work_experience_raw, llm_calls, phd_status,
                   envvars, config_ok, chatvars, csv_dir, csv_kind, textvars>>

\* ------------------------------------------------- extract_json_candidate
\* A response text is a sequence of tokens: the fence of three backticks,
\* the word json, one whitespace character, the two braces, and any other
\* character.
Fence == "fence"

Alphabet == {Fence, "json", " ", "{", "}", "x"}

Texts == UNION { [1..n -> Alphabet] : n \in 0..MaxTextLen }

\* str.strip()
strip(s) ==
    LET solid == { k \in 1..Len(s) : s[k] # " " }
    IN  IF solid = {} THEN <<>>
        ELSE SubSeq(s, CHOOSE k \in solid : \A m \in solid : k <= m,
                       CHOOSE k \in solid : \A m \in solid : k >= m)

\* \s* from position k on: the position of the first token that is not
\* whitespace (Len(s) + 1 if there is none).
RECURSIVE SkipSpace(_, _)
SkipSpace(s, k) ==
    IF k <= Len(s) /\ s[k] = " " THEN SkipSpace(s, k + 1) ELSE k

\* The token at position k, if any.
At(s, k) == IF k \in 1..Len(s) THEN s[k] ELSE NULL

\* The rest of the pattern, \}\s* and the fence, at position b.
ClosesAt(s, b) == At(s, b) = "}" /\ At(s, SkipSpace(s, b + 1)) = Fence

\* .*? from the opening brace on, tried with the longest span first.
RECURSIVE GreedyFrom(_, _, _)
GreedyFrom(s, lo, b) ==
    IF b < lo THEN 0
    ELSE IF ClosesAt(s, b) THEN b
    ELSE GreedyFrom(s, lo, b - 1)

\* .* in place of .*?
GreedyClose(s, b) == GreedyFrom(s, b, Len(s))

\* .*? : the span grows one token at a time until the rest of the pattern
\* matches; 0 when it never does.
RECURSIVE LazyClose(_, _)
LazyClose(s, b) ==
    IF b > Len(s) THEN 0
    ELSE IF ClosesAt(s, b) THEN b
    ELSE LazyClose(s, b + 1)

\* The pattern fence (?:json)?\s*(\{.*?\})\s* fence tried at position i:
\* the span of group 1, or <<0, 0>> when there is no match there.
MatchAt(s, i) ==
    IF At(s, i) # Fence THEN <<0, 0>>
    ELSE LET a == SkipSpace(s, IF At(s, i + 1) = "json" THEN i + 2 ELSE i + 1)
             b == LazyClose(s, a + 1)
         IN  IF At(s, a) = "{" /\ b # 0 THEN <<a, b>> ELSE <<0, 0>>

\* re.findall(...)[0]: the leftmost match; <<0, 0>> when findall returns
\* the empty list.
RECURSIVE FirstFenced(_, _)
FirstFenced(s, i) ==
    IF i > Len(s) THEN <<0, 0>>
    ELSE IF MatchAt(s, i) # <<0, 0>> THEN MatchAt(s, i)
    ELSE FirstFenced(s, i + 1)

\* str.find and str.rfind of a single character (0 for Python's -1).
find(s, ch) ==
    IF \E k \in 1..Len(s) : s[k] = ch
    THEN CHOOSE k \in 1..Len(s) :
            s[k] = ch /\ \A m \in 1..(k - 1) : s[m] # ch
    ELSE 0

rfind(s, ch) ==
    IF \E k \in 1..Len(s) : s[k] = ch
    THEN CHOOSE k \in 1..Len(s) :
            s[k] = ch /\ \A m \in (k + 1)..Len(s) : s[m] # ch
    ELSE 0

\* Lines 78-86.
extract_json_candidate(text) ==
    LET fenced == FirstFenced(text, 1)
        start == find(text, "{")
        end == rfind(text, "}")
    IN  IF fenced # <<0, 0>>
        THEN strip(SubSeq(text, fenced[1], fenced[2]))
        ELSE IF start # 0 /\ end # 0 /\ end > start
        THEN strip(SubSeq(text, start, end))
        ELSE strip(text)

\* Line 318: the extractor is applied to the response text.
Extract ==
    /\ json_candidate = NoCandidate
    /\ json_candidate' = extract_json_candidate(raw_text)
    /\ UNCHANGED <<dbvars, envvars, procvars, config_ok, chatvars, csvvars,
                   raw_text, extracted, validation, pydantic_major>>

\* ------------------------------------------------------ parse + validate
\* What a field of the extracted JSON object can hold, as far as PhDStatus
\* tells values apart: the key is absent, null, a JSON boolean, a string or
\* a number that pydantic converts to a boolean ("yes", 1), a string, a
\* number, or a value no conversion applies to (a list, say).
BoolInputs ==
    {"absent", "null", "true", "false", "bool_string", "bool_number", "other"}

StrInputs == {"absent", "null", "string", "number", "other"}

\* What json.loads(extract_json_candidate(response_text)) can be.
JsonValues ==
    [json : {"object"}, is_current_phd : BoolInputs,
     current_employer : StrInputs, current_title : StrInputs,
     since_month : StrInputs, evidence : StrInputs]
    \cup { [NoJson EXCEPT !.json = "invalid"],
           [NoJson EXCEPT !.json = "scalar"] }

\* Line 30, Optional[bool] with default None: pydantic converts the strings
\* and numbers it takes for booleans (no strict mode is set).  The value of
\* the parsed field, or "error".
OptionalBool(v) ==
    IF v \in {"absent", "null"} THEN "None"
    ELSE IF v \in {"true", "false"} THEN v
    ELSE IF v \in {"bool_string", "bool_number"} THEN "converted"
    ELSE "error"

\* A str field: pydantic 1 converts a number to a string, pydantic 2
\* rejects it; the repository does not say which one is installed.
Str(v, major) ==
    IF v = "string" THEN "string"
    ELSE IF v = "number" /\ major = 1 THEN "converted"
    ELSE "error"

\* Lines 31-33, Optional[str] = None.
OptionalStr(v, major) ==
    IF v \in {"absent", "null"} THEN "None" ELSE Str(v, major)

\* Lines 28-34: PhDStatus(**x) for a JSON object x; "error" stands for
\* ValidationError.
PhDStatus(x, major) ==
    [is_current_phd |-> OptionalBool(x.is_current_phd),
     current_employer |-> OptionalStr(x.current_employer, major),
     current_title |-> OptionalStr(x.current_title, major),
     since_month |-> OptionalStr(x.since_month, major),
     evidence |-> Str(x.evidence, major)]

\* Lines 314-334 for the extracted value x: the exception the block lets
\* escape, the flag validated and the validation error it keeps.
ParseAndValidate(x, major) ==
    IF x.json = "invalid" THEN
        [raised |-> NULL, validated |-> FALSE,
         validation_errors |-> "JSONDecodeError"]
    ELSE IF x.json = "scalar" THEN
        [raised |-> "TypeError", validated |-> FALSE,
         validation_errors |-> NULL]
    ELSE LET parsed == PhDStatus(x, major)
         IN  IF \E k \in DOMAIN parsed : parsed[k] = "error" THEN
                 [raised |-> NULL, validated |-> FALSE,
                  validation_errors |-> "ValidationError"]
             ELSE IF parsed.is_current_phd = "None" THEN
                 [raised |-> NULL, validated |-> FALSE,
                  validation_errors |->
                      "is_current_phd must be true/false (not null)"]
             ELSE
                 [raised |-> NULL, validated |-> TRUE,
                  validation_errors |-> NULL]

\* Lines 314-334 run on the extracted value.
Validate ==
    /\ validation = <<>>
    /\ validation' = <<ParseAndValidate(extracted, pydantic_major)>>
    /\ UNCHANGED <<dbvars, envvars, procvars, config_ok, chatvars, csvvars,
                   raw_text, json_candidate, extracted, pydantic_major>>

\* ---------------------------------------------------------- specifications
Step(i, budget) ==
    \/ EnrichConfigError(i)
    \/ PdfConfigError(i)
    \/ EnrichStart(i, budget)
    \/ EnrichSelect(i)
    \/ EnrichCheck(i)
    \/ EnrichService(i)
    \/ EnrichStore(i)
    \/ EnrichFinish(i)
    \/ EnrichFatal(i)
    \/ PdfStart(i, budget)
    \/ PdfRegister(i)
    \/ PdfPages(i)
    \/ PdfExperience(i)
    \/ PdfFinish(i)

\* One job at a time, as the batch is meant to be operated.
RunBudget == IF Cardinality(input_dir) = 1 THEN MaxRuns ELSE MaxRunsTwoFiles

Next == Step(1, RunBudget)

Spec == Init /\ [][Next]_vars

\* Two job instances started without mutual exclusion.
NextConc == \E i \in Instances : Step(i, MaxRunsConc)

\* The overlap is explored over the one-file input directory.
InitConc == Init /\ input_dir = {1}

SpecConc == InitConc /\ [][NextConc]_vars

\* ollama_chat called once, for every configured number of requests and
\* every behaviour of the service.
InitChat ==
    /\ DocsInit
    /\ input_dir = {1}
    /\ config_ok = TRUE
    /\ CsvIdle
    /\ TextIdle
    /\ OLLAMA_MAX_RETRIES \in 0..MaxOllamaRetries
    /\ ollama_server \in [1..(MaxOllamaRetries + 1) -> RequestOutcomes]
    /\ chat_return = NoChat

NextChat == ChatCall

SpecChat == InitChat /\ [][NextChat]_vars

\* The CSV lane run again and again, over every content of its files.
InitCsv ==
    /\ DocsInit
    /\ input_dir = {1}
    /\ config_ok = TRUE
    /\ ChatIdle
    /\ TextIdle
    /\ file_manifest = <<>>
    /\ staging = [f \in CsvFiles |-> <<>>]
    /\ csv_dir = {}
    /\ csv_kind \in [CsvFiles -> CsvKinds]

NextCsv == \E i \in {1} : CsvStart(i) \/ CsvStages(i)

SpecCsv == InitCsv /\ [][NextCsv]_vars

\* The batch over the two-file directory, with a process that may be killed.
InitCrash == Init /\ input_dir = {1, 2}

NextCrash == \E i \in {1} : Step(i, MaxRunsCrash) \/ EnrichKill(i)

SpecCrash == InitCrash /\ [][NextCrash]_vars

\* The batch over the one-file directory, long enough for a document to
\* use up its attempts, be ingested again and be selected once more.
InitGuard == Init /\ input_dir = {1}

NextGuard == \E i \in {1} : Step(i, MaxRunsGuard)

SpecGuard == InitGuard /\ [][NextGuard]_vars

\* extract_json_candidate applied once to every text of the bounded set.
InitExtract ==
    /\ DocsInit
    /\ input_dir = {1}
    /\ config_ok = TRUE
    /\ ChatIdle
    /\ CsvIdle
    /\ raw_text \in Texts
    /\ json_candidate = NoCandidate
    /\ extracted = NoJson
    /\ validation = <<>>
    /\ pydantic_major = 2

NextExtract == Extract

SpecExtract == InitExtract /\ [][NextExtract]_vars

\* The parse + validate block applied once to every extracted value, under
\* either major version of pydantic.
InitValidate ==
    /\ DocsInit
    /\ input_dir = {1}
    /\ config_ok = TRUE
    /\ ChatIdle
    /\ CsvIdle
    /\ raw_text = <<>>
    /\ json_candidate = NoCandidate
    /\ extracted \in JsonValues
    /\ validation = <<>>
    /\ pydantic_major \in {1, 2}

NextValidate == Validate

SpecValidate == InitValidate /\ [][NextValidate]_vars

\* ------------------------------------------------------------------ claims
Rows(d) == { c \in llm_calls : c.document_id = d }

ValidatedSuccess(c) == c.status = "SUCCESS" /\ c.validated = TRUE

EnrichedRows(d) == { r \in phd_status : r.document_id = d }

DocRecords(d) == <<documents[d], Rows(d), EnrichedRows(d)>>

Selected(d) ==
    \E k \in DOMAIN select_documents(documents, llm_calls) :
        select_documents(documents, llm_calls)[k] = d

NullPhdResponse == Response("object", "null", "string")

ValidPayload(text) ==
    /\ text.json = "object"
    /\ text.evidence = "string"
    /\ text.is_current_phd \in {"true", "false"}

\* Instance i is about to store the outcome of a service call that returned.
Storing(i) == pc[i] = "store" /\ call_result[i].raised = NULL

\* The step is the one in which instance i ends its document cycle.
EndsCycle(i) == pc[i] = "store" /\ pc'[i] # "store"

NoDbFault == db_faults' = db_faults

\* C1 - Idempotent skip: while an enrichment run is under way, a document
\* that has a validated SUCCESS attempt for the fingerprint the run computes
\* for it gets no service call, and its Document row, its AttemptRecords and
\* its EnrichedRecord stay as they are.
C1_IdempotentSkip ==
    [][\A i \in Instances : \A d \in DOMAIN documents :
          ( /\ pc[i] \in {"select", "loop", "call", "store"}
            /\ \E c \in Rows(d) : /\ ValidatedSuccess(c)
                                  /\ c.model = MODEL
                                  /\ c.prompt_version = PROMPT_VERSION
                                  /\ c.input_hash_sha256 = PromptHash(i, d) )
          => /\ service_calls'[d] = service_calls[d]
             /\ DocRecords(d)' = DocRecords(d)]_vars

\* A selected PARSED document with a validated attempt for the run's
\* fingerprint and attempts left has just been passed over.
C1_Witness ==
    \E i \in Instances : \E d \in DOMAIN documents :
        /\ pc[i] = "loop"
        /\ pos[i] > 1
        /\ doc_ids[i][pos[i] - 1] = d
        /\ documents[d].status = "PARSED"
        /\ count_attempts(llm_calls, d) < MAX_DOC_ATTEMPTS
        /\ \E c \in Rows(d) : /\ ValidatedSuccess(c)
                              /\ c.input_hash_sha256 = PromptHash(i, d)

\* C2 - Retry-budget convergence: a document whose enrichment never
\* validated has had the service invoked for it in at most MAX_DOC_ATTEMPTS
\* runs (no database fault involved).
C2_RetryBudget ==
    \A d \in DOMAIN documents :
        (db_faults = 0 /\ ~\E c \in Rows(d) : ValidatedSuccess(c))
        => service_calls[d] <= MAX_DOC_ATTEMPTS

C4_ValidationAsFailure ==
    [][\A i \in Instances :
          ( /\ Storing(i)
            /\ call_result[i].text = NullPhdResponse
            /\ EndsCycle(i)
            /\ NoDbFault )
          => LET d == CurrentDoc(i)
                 h == input_hash[i]
             IN  /\ \E c \in llm_calls' : /\ SameKey(c, d, h)
                                          /\ c.status = "FAILED"
                 /\ count_attempts(llm_calls', d)
                        = count_attempts(llm_calls, d) + 1]_vars

\* The valid third attempt of a FAILED document with two counted attempts
\* is being stored.
ThirdAttemptValid(i) ==
    /\ Storing(i)
    /\ ValidPayload(call_result[i].text)
    /\ EndsCycle(i)
    /\ NoDbFault
    /\ documents[CurrentDoc(i)].status = "FAILED"
    /\ count_attempts(llm_calls, CurrentDoc(i)) = 2

\* C5 (as claimed) - after the valid third attempt of a FAILED document with
\* 2 FAILED attempts commits, its attemptCount is 3.
C5_CountBecomesThree ==
    [][\A i \in Instances :
          ThirdAttemptValid(i)
          => count_attempts(llm_calls', CurrentDoc(i)) = 3]_vars

\* C5 (amended) - after the valid third attempt of a FAILED document with 2
\* FAILED attempts commits, its attemptCount is still 2 when the attempt has
\* a new fingerprint and 1 when it reuses the row of a failed attempt; the
\* document is ENRICHED and select_documents does not return it.
C5_CountStaysBelowThree ==
    [][\A i \in Instances : \A d \in DOMAIN documents :
          (ThirdAttemptValid(i) /\ d = CurrentDoc(i))
          => LET reused == \E c \in llm_calls : SameKey(c, d, input_hash[i])
             IN  /\ count_attempts(llm_calls', d) = IF reused THEN 1 ELSE 2
                 /\ documents'[d].status = "ENRICHED"
                 /\ ~Selected(d)']_vars

\* The document visited last went from two counted attempts to ENRICHED at
\* its third service call.
C5_Witness ==
    \E i \in Instances : \E d \in DOMAIN documents :
        /\ pc[i] = "loop"
        /\ pos[i] > 1
        /\ doc_ids[i][pos[i] - 1] = d
        /\ documents[d].status = "ENRICHED"
        /\ service_calls[d] = 3
        /\ db_faults = 0
        /\ count_attempts(llm_calls, d) = 2

\* C6 - a document is ENRICHED if and only if it has a validated SUCCESS
\* attempt.
C6_EnrichedIffValidated ==
    \A d \in DOMAIN documents :
        documents[d].status = "ENRICHED"
            <=> \E c \in Rows(d) : ValidatedSuccess(c)

KeyOf(c) ==
    <<c.document_id, c.model, c.prompt_version, c.input_hash_sha256>>

\* C7 - at most one AttemptRecord per key (document_id, model,
\* prompt_version, input_fingerprint), also with two instances interleaved:
\* every row keeps its id and its key, and storing an attempt for a key that
\* has a row adds no row.
C7_OneAttemptPerKey ==
    [][/\ \A c1, c2 \in llm_calls' :
             (KeyOf(c1) = KeyOf(c2) \/ c1.llm_call_id = c2.llm_call_id)
             => c1 = c2
       /\ \A c \in llm_calls : \E c2 \in llm_calls' :
             c2.llm_call_id = c.llm_call_id /\ KeyOf(c2) = KeyOf(c)
       /\ \A i \in Instances :
             ( /\ EndsCycle(i)
               /\ \E c \in llm_calls :
                     KeyOf(c) = <<CurrentDoc(i), MODEL, PROMPT_VERSION,
                                  input_hash[i]>> )
             => Cardinality(llm_calls') = Cardinality(llm_calls)]_vars

\* Two service calls for one document were both stored, in one row.
C7_Witness ==
    \E d \in DOMAIN documents :
        /\ service_calls[d] = 2
        /\ db_faults = 0
        /\ \A i \in Instances : pc[i] = "idle"
        /\ Cardinality(Rows(d)) = 1

\* C8 - Permanence of success: a committed AttemptRecord with status SUCCESS
\* and validated = true keeps both in every later step of the jobs run one
\* after another.
C8_SuccessIsPermanent ==
    [][\A c \in llm_calls :
          ValidatedSuccess(c)
          => \E c2 \in llm_calls' : /\ c2.llm_call_id = c.llm_call_id
                                    /\ KeyOf(c2) = KeyOf(c)
                                    /\ ValidatedSuccess(c2)]_vars

\* A failure was recorded for a document after its validated success.
C8_Witness ==
    \E d \in DOMAIN documents : \E c1, c2 \in Rows(d) :
        /\ ValidatedSuccess(c1)
        /\ c2.status = "FAILED"
        /\ c2.llm_call_id > c1.llm_call_id

\* C9 - Upsert semantics: core.phd_status never holds two rows of one
\* document, and after a valid payload is stored the document's row carries
\* that payload and the id of the attempt that produced it.
C9_UpsertSemantics ==
    [][/\ \A r1, r2 \in phd_status' :
             r1.document_id = r2.document_id => r1 = r2
       /\ \A i \in Instances :
             ( /\ Storing(i)
               /\ ValidPayload(call_result[i].text)
               /\ EndsCycle(i)
               /\ NoDbFault )
             => LET d == CurrentDoc(i)
                    text == call_result[i].text
                IN  \E r \in phd_status' : \E c \in llm_calls' :
                       /\ r.document_id = d
                       /\ r.is_current_phd = text.is_current_phd
                       /\ r.evidence = text.evidence
                       /\ KeyOf(c) = <<d, MODEL, PROMPT_VERSION, input_hash[i]>>
                       /\ r.source_llm_call_id = c.llm_call_id]_vars

\* A document was enriched twice with different payloads; its one row shows
\* the payload of the later attempt.
C9_Witness ==
    \E d \in DOMAIN documents : \E c1, c2 \in Rows(d) : \E r \in phd_status :
        /\ ValidatedSuccess(c1)
        /\ ValidatedSuccess(c2)
        /\ c1.llm_call_id < c2.llm_call_id
        /\ c1.response_json.is_current_phd # c2.response_json.is_current_phd
        /\ r.document_id = d
        /\ r.source_llm_call_id = c2.llm_call_id
        /\ r.is_current_phd = c2.response_json.is_current_phd

\* The per-document try block of instance i raises in this step: the service
\* call failed, the response is JSON but no object, or a statement failed.
RaisesInCycle(i) ==
    /\ EndsCycle(i)
    /\ \/ call_result[i].raised # NULL
       \/ call_result[i].text.json = "scalar"
       \/ db_faults' > db_faults

\* C10 - No cross-document abort: an exception inside one document's try
\* block leaves the Run RUNNING and moves the loop to the next document of
\* the same list; the run ends with exit code 0 only after the whole list
\* was visited, and then its Run is SUCCESS.
C10_NoCrossDocumentAbort ==
    [][\A i \in Instances :
          /\ RaisesInCycle(i)
             => /\ pc'[i] = "loop"
                /\ pos'[i] = pos[i] + 1
                /\ doc_ids'[i] = doc_ids[i]
                /\ run_id'[i] = run_id[i]
                /\ runs' = runs
          /\ ( /\ pc[i] \in {"loop", "call", "store"}
               /\ pc'[i] = "idle"
               /\ exit_code'[i] = 0 )
             => /\ pos[i] > Len(doc_ids[i])
                /\ runs'[run_id[i]].status = "SUCCESS"]_vars

\* In one run the first document failed on a service error, the next one was
\* enriched, and the Run was closed as SUCCESS.
C10_Witness ==
    /\ Len(runs) = 2
    /\ runs[2].status = "SUCCESS"
    /\ DOMAIN documents = {1, 2}
    /\ documents[2].status = "FAILED"
    /\ documents[2].error_message = "ServiceError"
    /\ documents[1].status = "ENRICHED"
    /\ service_calls[1] = 1
    /\ service_calls[2] = 1

\* The attempt count as the selector's contract words it.
attemptCount(d) ==
    Cardinality({ c \in llm_calls :
                    /\ c.document_id = d
                    /\ c.model = MODEL
                    /\ c.prompt_version = PROMPT_VERSION
                    /\ \/ c.status = "FAILED"
                       \/ (c.status = "SUCCESS" /\ c.validated = FALSE) })

\* C11 - select_documents returns, each once, exactly the documents whose
\* status is PARSED or NEEDS_REVIEW (whatever their attempt count) and the
\* FAILED documents whose attemptCount is below MAX_DOC_ATTEMPTS; it returns
\* no NEW and no ENRICHED document.
C11_SelectDocuments ==
    LET sel == select_documents(documents, llm_calls)
        returned == { sel[k] : k \in DOMAIN sel }
    IN  /\ returned =
              { d \in DOMAIN documents :
                  \/ documents[d].status \in {"PARSED", "NEEDS_REVIEW"}
                  \/ /\ documents[d].status = "FAILED"
                     /\ attemptCount(d) < MAX_DOC_ATTEMPTS }
        /\ Len(sel) = Cardinality(returned)
        /\ \A d \in returned : documents[d].status \notin {"NEW", "ENRICHED"}

\* Of two documents one is ENRICHED and left out, the other FAILED with an
\* attempt counted and returned.
C11_Witness ==
    \E d1, d2 \in DOMAIN documents :
        /\ documents[d1].status = "ENRICHED"
        /\ ~Selected(d1)
        /\ documents[d2].status = "FAILED"
        /\ attemptCount(d2) > 0
        /\ Selected(d2)

\* The enrichment main of instance i is invoked in this step.
EnrichInvoked(i) ==
    pc[i] = "idle" /\ (pc'[i] = "select" \/ EnrichConfigError(i))

EnrichPcs == {"select", "loop", "call", "store"}

EnrichReturns(i) == pc[i] \in EnrichPcs /\ pc'[i] = "idle"

\* C13 - when the enrichment main returns, the Run it created is SUCCESS or
\* FAILED and not RUNNING.
C13_RunClosedOnReturn ==
    [][\A i \in Instances :
          EnrichReturns(i)
          => runs'[run_id[i]].status \in {"SUCCESS", "FAILED"}]_vars

\* C14 - the enrichment job's exit code is 0 exactly when the document loop
\* completed and the Run was committed SUCCESS; it is 1 on a configuration
\* error or a run-level fatal error, and then the Run is FAILED with the
\* error message.
C14_ExitCode ==
    [][\A i \in Instances :
          /\ EnrichReturns(i)
             => /\ exit_code'[i] \in {0, 1}
                /\ exit_code'[i] = 0
                   <=> /\ pc[i] = "loop"
                       /\ pos[i] > Len(doc_ids[i])
                       /\ runs'[run_id[i]].status = "SUCCESS"
                /\ exit_code'[i] = 1
                   => /\ runs'[run_id[i]].status = "FAILED"
                      /\ runs'[run_id[i]].error_message # NULL
          /\ EnrichConfigError(i) => exit_code'[i] = 1]_vars

\* C15 - validation never raises: storing a response that is no valid
\* payload, whatever it is, records for the fingerprint an attempt with
\* validated = false, a validation error and the raw response text.
C15_ValidationNeverRaises ==
    [][\A i \in Instances :
          ( /\ Storing(i)
            /\ ~ValidPayload(call_result[i].text)
            /\ EndsCycle(i)
            /\ NoDbFault )
          => \E c \in llm_calls' :
                /\ SameKey(c, CurrentDoc(i), input_hash[i])
                /\ c.validated = FALSE
                /\ c.validation_errors # NULL
                /\ c.response_text = call_result[i].text]_vars

PdfPcs == {"pdf_loop", "pdf_pages", "pdf_experience"}

\* C17 - re-ingesting a registered file is a no-op: no step of pdf_parse
\* adds a second Document row for it or takes an ENRICHED document out of
\* ENRICHED.
C17_ReingestIsNoOp ==
    [][\A i \in Instances : \A d \in DOMAIN documents :
          pc[i] \in PdfPcs
          => /\ d \in DOMAIN documents'
             /\ documents[d].status = "ENRICHED"
                => documents'[d] = documents[d]]_vars

\* C18 - Traceability: the source attempt id of every EnrichedRecord is the
\* id of an AttemptRecord of the same document with status SUCCESS and
\* validated = true (jobs run one after another).
C18_Traceability ==
    \A r \in phd_status : \E c \in llm_calls :
        /\ c.llm_call_id = r.source_llm_call_id
        /\ c.document_id = r.document_id
        /\ ValidatedSuccess(c)

\* The EnrichedRecord of a document points to its validated attempt, which
\* is not the first attempt stored for the document.
C18_Witness ==
    \E r \in phd_status : \E c1, c2 \in Rows(r.document_id) :
        /\ c1.status = "FAILED"
        /\ c2.llm_call_id = r.source_llm_call_id
        /\ ValidatedSuccess(c2)
        /\ c2.llm_call_id > c1.llm_call_id

\* What the cycle of instance i is about to store is a valid payload.
StoresValid(i) ==
    /\ call_result[i].raised = NULL
    /\ ValidateResponse(call_result[i].text).raised = NULL
    /\ ValidateResponse(call_result[i].text).validated

\* C19 - two enrichment instances are not safe against each other: the
\* eligibility read, the service call and the writes are separate steps, and
\* the row of a fingerprint always ends up holding the outcome of the writer
\* that stores last, whatever another instance committed to it before.
C19_LastWriterWins ==
    [][\A i \in Instances :
          (pc[i] = "store" /\ EndsCycle(i) /\ NoDbFault)
          => \E c \in llm_calls' :
                /\ SameKey(c, CurrentDoc(i), input_hash[i])
                /\ c.validated = StoresValid(i)
                /\ c.status = IF StoresValid(i) THEN "SUCCESS" ELSE "FAILED"]_vars

\* Both instances invoked the service for one fingerprint of one document;
\* the first committed a validated success and its EnrichedRecord, the
\* second overwrote the attempt with a failure.
C19_Witness ==
    \E d \in DOMAIN documents : \E r \in phd_status : \E c \in llm_calls :
        /\ service_calls[d] = 2
        /\ Rows(d) = {c}
        /\ c.status = "FAILED"
        /\ r.document_id = d
        /\ r.source_llm_call_id = c.llm_call_id
        /\ documents[d].status = "FAILED"
        /\ db_faults = 0
        /\ Len(runs) = 3

\* C16 - ollama_chat issues at most OLLAMA_MAX_RETRIES requests: it returns
\* the content of the first request that succeeds and issues none after it;
\* if every request fails it raises, with the error of the last request (a
\* RuntimeError when no request was configured).
C16_BoundedRetries ==
    chat_return # NoChat
    => LET n == chat_return.requests
           Failed(k) == ollama_server[k].error # NULL
       IN  /\ n <= OLLAMA_MAX_RETRIES
           /\ \A k \in 1..(n - 1) : Failed(k)
           /\ chat_return.raised = NULL
              => /\ n >= 1
                 /\ ~Failed(n)
                 /\ chat_return.text = ollama_server[n].content
           /\ chat_return.raised # NULL
              => /\ n = OLLAMA_MAX_RETRIES
                 /\ \A k \in 1..n : Failed(k)
                 /\ n >= 1 => chat_return.raised = ollama_server[n].error
                 /\ n = 0 => chat_return.raised = "RuntimeError"

\* Two requests were configured and both failed, with different errors; the
\* call raised the second one although a third request would have succeeded.
C16_Witness ==
    /\ OLLAMA_MAX_RETRIES = 2
    /\ chat_return.requests = 2
    /\ ollama_server[1].error = "ConnectionError"
    /\ ollama_server[2].error = "HTTPError"
    /\ ollama_server[3].error = NULL
    /\ chat_return.raised = "HTTPError"

Recorded(f) ==
    f \in DOMAIN file_manifest /\ file_manifest[f].status \in {"LOADED", "SKIPPED"}

\* C20 - CSV staging idempotency: a run of the CSV lane leaves the manifest
\* row and the staging rows of a file recorded LOADED or SKIPPED as they
\* are, so a run over files all recorded so adds no staging rows and no
\* file is ever loaded twice; a file of the input directory that is not
\* recorded LOADED or SKIPPED (never seen, or its load failed) is processed
\* by a run that succeeds.
C20_StagingIdempotent ==
    [][\A i \in Instances : \A f \in CsvFiles :
          pc[i] = "csv_stages"
          => /\ Recorded(f)
                => /\ staging'[f] = staging[f]
                   /\ file_manifest'[f] = file_manifest[f]
             /\ (\A g \in csv_dir : Recorded(g)) => staging' = staging
             /\ Len(staging'[f]) <= 1
             /\ (f \in csv_dir /\ ~Recorded(f) /\ exit_code'[i] = 0)
                => /\ f \in DOMAIN file_manifest'
                   /\ file_manifest'[f].status =
                         IF csv_kind[f] = "rows" THEN "LOADED" ELSE "SKIPPED"
                   /\ staging'[f] = IF csv_kind[f] = "rows"
                                    THEN Append(staging[f], run_id[i])
                                    ELSE staging[f]]_vars

\* A first run failed and left nothing behind, a second run
\* loaded both, and a third run over the same files added nothing.
C20_Witness ==
    /\ Len(runs) = 3
    /\ runs[1].status = "RUNNING"
    /\ runs[2].status = "SUCCESS"
    /\ runs[3].status = "SUCCESS"
    /\ pc[1] = "idle"
    /\ csv_dir = CsvFiles
    /\ staging = [f \in CsvFiles |-> <<2>>]
    /\ \A f \in CsvFiles : file_manifest[f].status = "LOADED"


\* C21 - Load failures are recorded and re-raised: when load_csvs ends on a
\* failed load, the invocation ends with the error (exit code 1) and the
\* committed manifest holds a FAILED row with the error message for a file
\* of the directory.
C21_FailedManifestDurable ==
    [][\A i \in Instances :
          ( /\ pc[i] = "csv_stages"
            /\ pc'[i] = "idle"
            /\ exit_code'[i] = 1 )
          => \E f \in csv_dir :
                /\ f \in DOMAIN file_manifest'
                /\ file_manifest'[f].status = "FAILED"
                /\ file_manifest'[f].error_message # NULL]_vars

\* The fingerprints of the AttemptRecords of document d.
Fingerprints(d) == { c.input_hash_sha256 : c \in Rows(d) }

\* The cycle of instance i ends with a FAILED record for a key that has a
\* row already.
FailsOnExistingKey(i) ==
    /\ EndsCycle(i)
    /\ \E c \in llm_calls : SameKey(c, CurrentDoc(i), input_hash[i])
    /\ \E c \in llm_calls' : /\ SameKey(c, CurrentDoc(i), input_hash[i])
                             /\ c.status = "FAILED"

\* C22 - Attempt rows are reused: a failed attempt whose key already has a
\* row leaves the number of the document's AttemptRecords and its
\* attemptCount as they were, so attemptCount never exceeds the number of
\* fingerprints the document was tried under: at most 1 while the
\* fingerprint never changes.
C22_FailedAttemptReusesRow ==
    [][/\ \A d \in DOMAIN documents' :
             attemptCount(d)' <= Cardinality(Fingerprints(d)')
       /\ \A i \in Instances : \A d \in DOMAIN documents :
             (FailsOnExistingKey(i) /\ d = CurrentDoc(i))
             => /\ Cardinality(Rows(d)') = Cardinality(Rows(d))
                /\ attemptCount(d)' = attemptCount(d)]_vars

\* A document failed in three runs under one fingerprint and has one
\* AttemptRecord.
C22_Witness ==
    \E d \in DOMAIN documents :
        /\ service_calls[d] >= 3
        /\ db_faults = 0
        /\ documents[d].status = "FAILED"
        /\ Cardinality(Rows(d)) = 1
        /\ attemptCount(d) = 1


\* The validated SUCCESS AttemptRecords of document d.
ValidatedRows(d) == { c \in Rows(d) : ValidatedSuccess(c) }

\* C23 - The success step is one transaction: storing a valid payload
\* leaves, together, the AttemptRecord of the key SUCCESS and validated, the
\* document's EnrichedRecord pointing to that AttemptRecord, and the
\* document ENRICHED with its error message cleared; and no step changes
\* only some of a document's validated attempts, its EnrichedRecord and its
\* move to ENRICHED.
C23_SuccessStepAtomic ==
    [][/\ \A i \in Instances :
             ( /\ Storing(i)
               /\ ValidPayload(call_result[i].text)
               /\ EndsCycle(i)
               /\ NoDbFault )
             => LET d == CurrentDoc(i)
                IN  /\ documents'[d].status = "ENRICHED"
                    /\ documents'[d].error_message = NULL
                    /\ \E c \in llm_calls' : \E r \in phd_status' :
                          /\ SameKey(c, d, input_hash[i])
                          /\ ValidatedSuccess(c)
                          /\ r.document_id = d
                          /\ r.source_llm_call_id = c.llm_call_id
       /\ \A d \in DOMAIN documents :
             LET attempt == ValidatedRows(d)' # ValidatedRows(d)
                 enriched == EnrichedRows(d)' # EnrichedRows(d)
                 document == /\ documents'[d] # documents[d]
                             /\ documents'[d].status = "ENRICHED"
             IN  /\ attempt <=> enriched
                 /\ enriched <=> document]_vars

\* A document that had failed under a fingerprint was enriched at the second
\* call under the same fingerprint: its one AttemptRecord is now SUCCESS, its
\* EnrichedRecord points to it and its error message is cleared.
C23_Witness ==
    \E d \in DOMAIN documents : \E c \in Rows(d) : \E r \in phd_status :
        /\ service_calls[d] = 2
        /\ db_faults = 0
        /\ Rows(d) = {c}
        /\ ValidatedSuccess(c)
        /\ r.document_id = d
        /\ r.source_llm_call_id = c.llm_call_id
        /\ documents[d].status = "ENRICHED"
        /\ documents[d].error_message = NULL

\* C24 - Service failure: when the service call raised and the handler's
\* own writes go through, the key's AttemptRecord is FAILED, not validated
\* and carries the error message, the document is FAILED with that message,
\* no EnrichedRecord changes, the Run stays as it is and the loop moves to
\* the next document.
C24_ServiceFailureRecorded ==
    [][\A i \in Instances :
          ( /\ pc[i] = "store"
            /\ call_result[i].raised # NULL
            /\ EndsCycle(i)
            /\ NoDbFault )
          => LET d == CurrentDoc(i)
                 e == call_result[i].raised
             IN  /\ \E c \in llm_calls' :
                       /\ SameKey(c, d, input_hash[i])
                       /\ c.status = "FAILED"
                       /\ c.validated = FALSE
                       /\ c.error_message = e
                 /\ documents'[d].status = "FAILED"
                 /\ documents'[d].error_message = e
                 /\ phd_status' = phd_status
                 /\ runs' = runs
                 /\ pc'[i] = "loop"
                 /\ pos'[i] = pos[i] + 1]_vars

\* The loop has just left a document whose service call failed: the attempt
\* and the document are FAILED with the service's error.
C24_Witness ==
    \E i \in Instances :
        /\ pc[i] = "loop"
        /\ pos[i] > 1
        /\ db_faults = 0
        /\ LET d == doc_ids[i][pos[i] - 1]
           IN  /\ service_calls[d] = 1
               /\ documents[d].status = "FAILED"
               /\ documents[d].error_message = "ServiceError"
               /\ \E c \in Rows(d) : /\ c.status = "FAILED"
                                     /\ c.validated = FALSE
                                     /\ c.error_message = "ServiceError"

\* C25 - Invalid output: storing a response that fails validation leaves the
\* key's AttemptRecord FAILED, not validated and carrying the validation
\* error, the document FAILED with the validation error message, and every
\* EnrichedRecord as it was.
C25_InvalidOutputRecorded ==
    [][\A i \in Instances :
          ( /\ Storing(i)
            /\ ~ValidPayload(call_result[i].text)
            /\ EndsCycle(i)
            /\ NoDbFault )
          => LET d == CurrentDoc(i)
             IN  /\ \E c \in llm_calls' :
                       /\ SameKey(c, d, input_hash[i])
                       /\ c.status = "FAILED"
                       /\ c.validated = FALSE
                       /\ c.validation_errors # NULL
                 /\ documents'[d].status = "FAILED"
                 /\ documents'[d].error_message = "LLM output invalid"
                 /\ phd_status' = phd_status]_vars


\* C26 - Documents without roles: while an enrichment run is under way, a
\* document with no role records gets no service call and its Document row
\* (status and error message), its AttemptRecords and its EnrichedRecord
\* stay as they are; when its turn comes the loop passes to the next
\* document.
C26_NoRolesNoEffect ==
    [][\A i \in Instances : \A d \in DOMAIN documents :
          (pc[i] \in EnrichPcs /\ work_experience_raw[d] = <<>>)
          => /\ service_calls'[d] = service_calls[d]
             /\ DocRecords(d)' = DocRecords(d)
             /\ ( /\ pc[i] = "loop"
                  /\ InLoop(i)
                  /\ d = CurrentDoc(i)
                  /\ pc'[i] # "idle" )
                => (pc'[i] = "loop" /\ pos'[i] = pos[i] + 1)]_vars

\* The third enrichment run has just passed over a document that has no
\* role records: it never got a service call nor an AttemptRecord.
C26_Witness ==
    \E i \in Instances :
        /\ pc[i] = "loop"
        /\ pos[i] > 1
        /\ Len(runs) >= 4
        /\ LET d == doc_ids[i][pos[i] - 1]
           IN  /\ work_experience_raw[d] = <<>>
               /\ documents[d].status = "NEEDS_REVIEW"
               /\ service_calls[d] = 0
               /\ Rows(d) = {}

\* C27 - Per-document isolation: a step in which one document's cycle
\* raises and is rolled back leaves the Document row, the AttemptRecords and
\* the EnrichedRecord of every other document as they were.
C27_FailureLeavesOthersAlone ==
    [][\A i \in Instances : \A d \in DOMAIN documents :
          (RaisesInCycle(i) /\ d # CurrentDoc(i))
          => DocRecords(d)' = DocRecords(d)]_vars

\* In one run the first document of the list was enriched and the second
\* one then failed on a database error and was rolled back: the first one's
\* records are still there.
C27_Witness ==
    \E i \in Instances :
        /\ pc[i] = "loop"
        /\ Len(doc_ids[i]) = 2
        /\ pos[i] = 3
        /\ db_faults = 1
        /\ LET first == doc_ids[i][1]
               second == doc_ids[i][2]
           IN  /\ documents[first].status = "ENRICHED"
               /\ \E c \in Rows(first) : ValidatedSuccess(c)
               /\ EnrichedRows(first) # {}
               /\ documents[second].status = "FAILED"
               /\ documents[second].error_message = "DatabaseError"

\* In this step a write of the per-document handler itself fails: the try
\* block raised (service error or TypeError) and a statement failed, or a
\* statement of the try block failed and one of the handler failed too.
SecondaryWriteFails(i) ==
    /\ EndsCycle(i)
    /\ \/ /\ \/ call_result[i].raised # NULL
             \/ call_result[i].text.json = "scalar"
          /\ db_faults' > db_faults
       \/ db_faults' >= db_faults + 2

\* C28 - Best-effort secondary write: when a write of the handler fails, no
\* AttemptRecord and no EnrichedRecord changes, the document is left as it
\* was or marked FAILED, no other document changes, the Run stays RUNNING
\* and the loop moves to the next document.
C28_SecondaryFailureContained ==
    [][\A i \in Instances :
          SecondaryWriteFails(i)
          => /\ llm_calls' = llm_calls
             /\ phd_status' = phd_status
             /\ \A d \in DOMAIN documents :
                   \/ documents'[d] = documents[d]
                   \/ /\ d = CurrentDoc(i)
                      /\ documents'[d].status = "FAILED"
                      /\ documents'[d].error_message # NULL
             /\ runs' = runs
             /\ runs[run_id[i]].status = "RUNNING"
             /\ pc'[i] = "loop"
             /\ pos'[i] = pos[i] + 1
             /\ exit_code'[i] = exit_code[i]]_vars

\* A run in which the failure records of a document could not be written
\* (the document got a service call, has no AttemptRecord and is still
\* PARSED) was closed as SUCCESS with exit code 0.
C28_Witness ==
    \E i \in Instances : \E d \in DOMAIN documents :
        /\ pc[i] = "idle"
        /\ exit_code[i] = 0
        /\ Len(runs) = 2
        /\ runs[2].status = "SUCCESS"
        /\ db_faults >= 1
        /\ service_calls[d] = 1
        /\ Rows(d) = {}
        /\ documents[d].status = "PARSED"


\* The process of instance i is killed in this step.
Killed(i) ==
    /\ pc[i] \in EnrichPcs
    /\ pc'[i] = "idle"
    /\ exit_code'[i] = 137

\* C29 - Crash atomicity: killing the process after its Run was committed
\* leaves that Run RUNNING and every document's Document row, AttemptRecords
\* and EnrichedRecord as the last commit left them (entirely before or
\* entirely after a cycle); and at no time is a document ENRICHED without an
\* EnrichedRecord that points to a validated SUCCESS AttemptRecord of it.
C29_CrashAtomicity ==
    [][/\ \A i \in Instances :
             Killed(i)
             => /\ runs' = runs
                /\ runs[run_id[i]].status = "RUNNING"
                /\ \A d \in DOMAIN documents :
                      DocRecords(d)' = DocRecords(d)
       /\ \A d \in DOMAIN documents' :
             documents'[d].status = "ENRICHED"
             => \E r \in phd_status' : \E c \in llm_calls' :
                   /\ r.document_id = d
                   /\ c.document_id = d
                   /\ ValidatedSuccess(c)
                   /\ r.source_llm_call_id = c.llm_call_id]_vars

\* The process was killed while the response for the second document of its
\* list was being stored: the first document is ENRICHED with its records,
\* the second one is as it was before its cycle, and the Run is RUNNING.
C29_Witness ==
    \E i \in Instances : \E a, b \in DOMAIN documents :
        /\ pc[i] = "idle"
        /\ exit_code[i] = 137
        /\ db_faults = 0
        /\ Len(runs) = 2
        /\ runs[2].status = "RUNNING"
        /\ documents[a].status = "ENRICHED"
        /\ EnrichedRows(a) # {}
        /\ \E c \in Rows(a) : ValidatedSuccess(c)
        /\ documents[b].status = "PARSED"
        /\ service_calls[b] = 1
        /\ Rows(b) = {}
        /\ EnrichedRows(b) = {}


\* C30 - Run-level fatal failure: when an error outside the per-document try
\* block ends the invocation with exit code 1, no further document is
\* processed (no service call, no change of a document's records) and the
\* Run is committed FAILED with the error message.
C30_FatalFailureClosesRun ==
    [][\A i \in Instances :
          ( /\ pc[i] \in {"select", "loop"}
            /\ pc'[i] = "idle"
            /\ exit_code'[i] = 1 )
          => /\ service_calls' = service_calls
             /\ \A d \in DOMAIN documents : DocRecords(d)' = DocRecords(d)
             /\ runs'[run_id[i]].status = "FAILED"
             /\ runs'[run_id[i]].error_message # NULL]_vars


\* C31 - One pass in the selector's order: the list is computed once, at the
\* select step, without repetition and in descending ingestion time; until
\* main returns the list stays as it is and the position only moves forward
\* one document at a time, at the end of that document's cycle; a service
\* call is made only for the document at the current position, once.
C31_OnePassInOrder ==
    [][\A i \in Instances :
          /\ (pc[i] = "select" /\ pc'[i] = "loop")
             => /\ pos'[i] = 1
                /\ \A j, k \in DOMAIN doc_ids'[i] :
                      j < k => /\ doc_ids'[i][j] # doc_ids'[i][k]
                               /\ documents[doc_ids'[i][j]].ingested_at
                                    >= documents[doc_ids'[i][k]].ingested_at
          /\ (pc[i] \in {"loop", "call", "store"} /\ pc'[i] # "idle")
             => /\ doc_ids'[i] = doc_ids[i]
                /\ pos'[i] \in {pos[i], pos[i] + 1}
                /\ (pc[i] = "call" => pos'[i] = pos[i])
                /\ (pc[i] = "store" => (pc'[i] = "loop" /\ pos'[i] = pos[i] + 1))
                /\ (pc'[i] = "call" => pos'[i] = pos[i])
          /\ pc[i] \in EnrichPcs
             => \A d \in DOMAIN service_calls :
                   service_calls'[d] # service_calls[d]
                   => /\ pc[i] = "loop"
                      /\ pc'[i] = "call"
                      /\ InLoop(i)
                      /\ d = CurrentDoc(i)
                      /\ service_calls'[d] = service_calls[d] + 1]_vars

\* A run visited the two documents of its list, the later ingested one
\* first, and called the service once for each.
C31_Witness ==
    \E i \in Instances :
        /\ pc[i] = "loop"
        /\ Len(doc_ids[i]) = 2
        /\ pos[i] = 3
        /\ documents[doc_ids[i][1]].ingested_at
              > documents[doc_ids[i][2]].ingested_at
        /\ service_calls[doc_ids[i][1]] = 1
        /\ service_calls[doc_ids[i][2]] = 1

\* C32 - Statuses written by enrichment: an enrichment step changes the
\* Document row of the current document only, only from PARSED, NEEDS_REVIEW
\* or FAILED and only to FAILED or ENRICHED; the select step returns no
\* document that is ENRICHED or NEW, and such a document gets no service
\* call and no change of its row while a run is under way.
C32_StatusesWritten ==
    [][\A i \in Instances : \A d \in DOMAIN documents :
          pc[i] \in EnrichPcs
          => /\ documents'[d] # documents[d]
                => /\ pc[i] = "store"
                   /\ d = CurrentDoc(i)
                   /\ documents[d].status \in {"PARSED", "NEEDS_REVIEW", "FAILED"}
                   /\ documents'[d].status \in {"FAILED", "ENRICHED"}
             /\ (pc[i] = "select" /\ pc'[i] = "loop")
                => \A k \in DOMAIN doc_ids'[i] :
                      documents[doc_ids'[i][k]].status
                          \in {"PARSED", "NEEDS_REVIEW", "FAILED"}
             /\ documents[d].status \in {"ENRICHED", "NEW"}
                => /\ service_calls'[d] = service_calls[d]
                   /\ documents'[d] = documents[d]
                   /\ \A k \in DOMAIN doc_ids'[i] :
                         k >= pos'[i] => doc_ids'[i][k] # d]_vars

\* A run started after the document was ENRICHED selected nothing.
C32_Witness ==
    \E i \in Instances : \E d \in DOMAIN documents :
        /\ pc[i] = "loop"
        /\ doc_ids[i] = <<>>
        /\ documents[d].status = "ENRICHED"
        /\ service_calls[d] = 1


\* A fenced object of the text s: the span <<a, b>> from an opening brace
\* that follows a fence, an optional json and whitespace, to a closing brace
\* that is followed by whitespace and a fence.
FencedObjects(s) ==
    { ab \in (1..Len(s)) \X (1..Len(s)) :
        /\ s[ab[1]] = "{"
        /\ s[ab[2]] = "}"
        /\ ab[1] < ab[2]
        /\ \E i \in 1..(ab[1] - 1) :
              /\ s[i] = Fence
              /\ \A k \in (i + 1)..(ab[1] - 1) :
                    s[k] = " " \/ (k = i + 1 /\ s[k] = "json")
        /\ \E j \in (ab[2] + 1)..Len(s) :
              /\ s[j] = Fence
              /\ \A k \in (ab[2] + 1)..(j - 1) : s[k] = " " }

\* The first fenced object: the leftmost one and, of those that start
\* there, the shortest.
FirstFencedObject(s) ==
    CHOOSE ab \in FencedObjects(s) :
        \A cd \in FencedObjects(s) :
            \/ ab[1] < cd[1]
            \/ (ab[1] = cd[1] /\ ab[2] <= cd[2])

Braces(s) ==
    { pq \in (1..Len(s)) \X (1..Len(s)) :
        s[pq[1]] = "{" /\ s[pq[2]] = "}" /\ pq[1] < pq[2] }

\* C34 - Two-stage extraction: the result is the first fenced object when
\* the text holds one; otherwise, when a '{' is followed later by a '}', the
\* substring from the first '{' to the last '}'; otherwise the whole text
\* trimmed.
C34_TwoStageExtraction ==
    json_candidate # NoCandidate
    => LET s == raw_text
       IN  IF FencedObjects(s) # {}
           THEN json_candidate = SubSeq(s, FirstFencedObject(s)[1],
                                           FirstFencedObject(s)[2])
           ELSE IF Braces(s) # {}
           THEN \E pq \in Braces(s) :
                   /\ \A k \in 1..(pq[1] - 1) : s[k] # "{"
                   /\ \A k \in (pq[2] + 1)..Len(s) : s[k] # "}"
                   /\ json_candidate = SubSeq(s, pq[1], pq[2])
           ELSE /\ \E a \in 1..(Len(s) + 1) : \E b \in 0..Len(s) :
                      /\ json_candidate = SubSeq(s, a, b)
                      /\ \A k \in 1..(a - 1) : s[k] = " "
                      /\ \A k \in (b + 1)..Len(s) : s[k] = " "
                /\ json_candidate # <<>>
                   => /\ json_candidate[1] # " "
                      /\ json_candidate[Len(json_candidate)] # " "

\* A text with two fenced objects, text before the first and a closing brace
\* after the last: the result is the first fenced object.
C34_Witness ==
    /\ raw_text = <<"x", Fence, "{", "}", Fence, "{", "}">>
    /\ json_candidate = <<"{", "}">>


\* C33 - Validation rule: a response is validated if and only if the
\* extracted JSON is an object whose evidence is a string, whose
\* is_current_phd is a JSON boolean and whose optional fields are absent,
\* null or strings.
C33_ValidatedIffWellFormed ==
    validation # <<>>
    => ( validation[1].validated
         <=> /\ extracted.json = "object"
             /\ extracted.evidence = "string"
             /\ extracted.is_current_phd \in {"true", "false"}
             /\ \A k \in {"current_employer", "current_title", "since_month"} :
                   extracted[k] \in {"absent", "null", "string"} )


\* C35 - Run ledger of the ingestion pipelines: when an invocation of the
\* CSV lane that created a Run ends, that Run is SUCCESS or FAILED, not
\* RUNNING.
C35_IngestionRunClosed ==
    [][\A i \in Instances :
          (pc[i] = "csv_stages" /\ pc'[i] = "idle")
          => runs'[run_id[i]].status \in {"SUCCESS", "FAILED"}]_vars


\* C36 - Per-document guard: when the turn of a document comes whose
\* attemptCount is at least MAX_DOC_ATTEMPTS, whatever its status, the step
\* makes no service call, computes no fingerprint and writes nothing, and
\* unless main ends there the loop passes to the next document.
C36_GuardSkips ==
    [][\A i \in Instances :
          ( /\ pc[i] = "loop"
            /\ InLoop(i)
            /\ count_attempts(llm_calls, CurrentDoc(i)) >= MAX_DOC_ATTEMPTS )
          => /\ service_calls' = service_calls
             /\ documents' = documents
             /\ llm_calls' = llm_calls
             /\ phd_status' = phd_status
             /\ pc'[i] # "call"
             /\ pc'[i] # "idle"
                => /\ pc'[i] = "loop"
                   /\ pos'[i] = pos[i] + 1
                   /\ input_hash'[i] = input_hash[i]]_vars

\* A document that had used up its attempts was ingested again, selected as
\* PARSED and passed over by the guard.
C36_Witness ==
    \E i \in Instances :
        /\ pc[i] = "loop"
        /\ Len(doc_ids[i]) = 1
        /\ pos[i] = 2
        /\ LET d == doc_ids[i][1]
           IN  /\ documents[d].status = "PARSED"
               /\ count_attempts(llm_calls, d) >= MAX_DOC_ATTEMPTS
               /\ service_calls[d] = MAX_DOC_ATTEMPTS


\* C37 - validated and status agree: every AttemptRecord is validated if and
\* only if its status is SUCCESS, so the count the selector uses equals the
\* number of the document's FAILED AttemptRecords.
C37_ValidatedIffSuccess ==
    /\ \A c \in llm_calls : c.validated <=> c.status = "SUCCESS"
    /\ \A d \in DOMAIN documents :
          /\ count_attempts(llm_calls, d)
                = Cardinality({ c \in Rows(d) : c.status = "FAILED" })
          /\ attemptCount(d) = count_attempts(llm_calls, d)

\* A document has an attempt that failed in the service, one that failed
\* validation and one that succeeded: two of them count.
C37_Witness ==
    \E d \in DOMAIN documents : \E c1, c2, c3 \in Rows(d) :
        /\ c1.status = "FAILED" /\ c1.error_message = "ServiceError"
        /\ c2.status = "FAILED" /\ c2.validation_errors # NULL
        /\ c3.status = "SUCCESS" /\ c3.validated
        /\ attemptCount(d) = 2

\* C38 - Status and error message: a document that is ENRICHED has an
\* EnrichedRecord and no error message, and a document that an enrichment
\* step sets to FAILED has an error message.
C38_StatusAndErrorMessage ==
    [][/\ \A d \in DOMAIN documents' :
             documents'[d].status = "ENRICHED"
             => /\ documents'[d].error_message = NULL
                /\ \E r \in phd_status' : r.document_id = d
       /\ \A i \in Instances : \A d \in DOMAIN documents :
             ( /\ pc[i] \in EnrichPcs
               /\ documents'[d] # documents[d]
               /\ documents'[d].status = "FAILED" )
             => documents'[d].error_message # NULL]_vars

\* Of the two documents of one run, one was set to FAILED for an invalid
\* response and the other, which had an error message from a failed
\* ingestion before, is ENRICHED with the message cleared.
C38_Witness ==
    \E a, b \in DOMAIN documents :
        /\ documents[a].status = "FAILED"
        /\ documents[a].error_message = "LLM output invalid"
        /\ documents[b].status = "ENRICHED"
        /\ documents[b].error_message = NULL
        /\ EnrichedRows(b) # {}

\* C39 - The CSV lane is all-or-nothing: when load_csvs ends with status 0
\* its Run is SUCCESS and every file of the directory is recorded LOADED or
\* SKIPPED; when it ends on a failure the manifest and the staging tables
\* are what they were before the invocation and the Run is not SUCCESS.
C39_CsvAllOrNothing ==
    [][\A i \in Instances :
          (pc[i] = "csv_stages" /\ pc'[i] = "idle")
          => IF exit_code'[i] = 0
             THEN /\ runs'[run_id[i]].status = "SUCCESS"
                  /\ \A f \in csv_dir :
                        /\ f \in DOMAIN file_manifest'
                        /\ file_manifest'[f].status \in {"LOADED", "SKIPPED"}
                        /\ (csv_kind[f] = "rows" /\ ~Recorded(f))
                           => staging'[f] = Append(staging[f], run_id[i])
             ELSE /\ file_manifest' = file_manifest
                  /\ staging' = staging
                  /\ runs'[run_id[i]].status # "SUCCESS"]_vars

\* An invocation over a loadable file and an unreadable one ended on the
\* failure: nothing of the first file is durable.
C39_Witness ==
    \E i \in Instances :
        /\ pc[i] = "idle"
        /\ exit_code[i] = 1
        /\ csv_dir = {1, 2}
        /\ csv_kind[1] = "rows"
        /\ csv_kind[2] = "unreadable"
        /\ Len(runs) = 1
        /\ file_manifest = <<>>
        /\ staging[1] = <<>>

====
